---- MODULE Spec2Model ----
(***************************************************************************)
(* Model of the black-hole optics component (src/src/components/           *)
(* BlackHole.tsx, the BlackHoleComponent variant, lines 588-1593): the     *)
(* scene of lasers, the viewport (zoom, pan), the pointer-gesture flags,   *)
(* the coordinate edit session and the light-path integration loop.        *)
(*                                                                         *)
(* Numbers.  The code computes in IEEE doubles; the model computes the     *)
(* same expressions exactly:                                               *)
(*   - zoom is kept in thousandths (1000 = zoom 1.0),                      *)
(*   - angles are kept in thousandths of a degree (360000 = 360 degrees),  *)
(*   - a world coordinate is a reduced fraction [n, d] of pixels,          *)
(*   - a text of a numeric input is its sign, its magnitude in             *)
(*     thousandths and its number of decimals; any other text is invalid.  *)
(* Pointer coordinates are client pixels (integers).                       *)
(***************************************************************************)
EXTENDS Integers, Sequences, FiniteSets, Bags, TLC

VARIABLES
    zoom,             \* useState(1), in thousandths
    gravityEnabled,   \* useState(false)
    editingLaserId,   \* useState<number | null>(null)
    tempInputValues,  \* useState({x: '', y: '', angle: ''})
    lasers,           \* useState<Laser[]>([])
    nextId,           \* useState(0)
    isDragging,       \* useState(false)
    draggedLaserId,   \* useState<number | null>(null)
    rotatingLaserId,  \* useState<number | null>(null)
    lastMouseX,       \* useState<number | null>(null)
    panOffset,        \* useState({x: 0, y: 0})
    isPanning,        \* useState(false)
    panStart,         \* useState({x: 0, y: 0})
    wasPanning,       \* useState(false)
    ev,               \* the event the last handler call received
    eventCount,       \* the number of events delivered so far
    path,             \* the call of calculateLightPath in progress: its arguments,
                      \* loop counter, state vector and points
    size,             \* useState({ width: 800, height: 800 })
    earlier           \* an earlier call of calculateLightPath: its arguments and
                      \* the points it returned

vars == << zoom, gravityEnabled, editingLaserId, tempInputValues, lasers, nextId,
           isDragging, draggedLaserId, rotatingLaserId, lastMouseX, panOffset,
           isPanning, panStart, wasPanning, ev, eventCount, path, size, earlier >>

sceneVars == << zoom, gravityEnabled, editingLaserId, tempInputValues, lasers, nextId,
                isDragging, draggedLaserId, rotatingLaserId, lastMouseX, panOffset,
                isPanning, panStart, wasPanning, ev, eventCount >>

(***************************************************************************)
(* Program constants.                                                      *)
(***************************************************************************)
NULL == 0 - 1                      \* null of `number | null` (ids, clientX >= 0)

minZoom == 200                     \* const minZoom = 0.2
maxZoom == 2500                    \* const maxZoom = 2.5
ZoomUnit == 1000                   \* zoom 1.0 in thousandths
ZoomButtonStep == 200              \* z - 0.2, z + 0.2
Width == 800                       \* size.width  (useState initial value)
Height == 800                      \* size.height (useState initial value)
BHSizeCap == 600                   \* Math.min(size.width, size.height, 600)
FullTurn == 360000                 \* 360 degrees in thousandths
HalfTurn == 180000                 \* 180 degrees in thousandths
ShiftAngle == 90000                \* e.shiftKey ? 90 : 0
RotateGain == 500                  \* deltaX * 0.5 degrees, in thousandths
maxSteps == 4000                   \* const maxSteps = 4000

Min2(a, b) == IF a < b THEN a ELSE b
Max2(a, b) == IF a > b THEN a ELSE b
Abs(a) == IF a < 0 THEN 0 - a ELSE a

\* const BH_SIZE = Math.min(size.width, size.height, 600)
BH_SIZE == Min2(Min2(Width, Height), BHSizeCap)
\* const rs = BH_SIZE * 0.25
rs == BH_SIZE \div 4
\* playgroundWidth = size.width * 0.8, playgroundHeight = size.height
playgroundWidth == (Width * 8) \div 10
playgroundHeight == Height
\* BH_CENTER = {x: playgroundWidth / 2, y: playgroundHeight / 2}
BH_CENTER == [x |-> playgroundWidth \div 2, y |-> playgroundHeight \div 2]
\* the playground's getBoundingClientRect(): className "left-[20%] top-0"
Rect == [left |-> (Width * 2) \div 10, top |-> 0]

(***************************************************************************)
(* Exact arithmetic.                                                       *)
(***************************************************************************)
RECURSIVE GCD(_, _)
GCD(a, b) == IF b = 0 THEN a ELSE GCD(b, a % b)

\* the fraction n/d (d > 0) in lowest terms
Rat(n, d) ==
    LET g == GCD(Abs(n), d)
    IN  [n |-> n \div g, d |-> d \div g]

RatZero == [n |-> 0, d |-> 1]
RatNeg(q) == [n |-> 0 - q.n, d |-> q.d]
RatEq(p, q) == p.n * q.d = q.n * p.d
RatLess(p, q) == p.n * q.d < q.n * p.d

\* JavaScript's a % m: the remainder has the sign of the dividend
JsRem(a, m) == IF a >= 0 THEN a % m ELSE 0 - ((0 - a) % m)

\* normalizeAngle reduced to angle % 360, which keeps the sign of angle
normalizeAngleNoWrap(angle) == JsRem(angle, FullTurn)

\* normalizeAngle that brings the angle back by one turn at most
normalizeAngleSingleTurn(angle) ==
    IF angle < 0 THEN angle + FullTurn
    ELSE IF angle >= FullTurn THEN angle - FullTurn ELSE angle

\* const normalizeAngle = (angle) => ((angle % 360) + 360) % 360
normalizeAngle(angle) == JsRem(JsRem(angle, FullTurn) + FullTurn, FullTurn)

RECURSIVE Pow10(_)
Pow10(k) == IF k = 0 THEN 1 ELSE 10 * Pow10(k - 1)

(***************************************************************************)
(* Texts of the numeric inputs.                                            *)
(*   valid: the text is a decimal number  (-)mag/1000 written with fd      *)
(*          decimals; otherwise raw is the text itself.                    *)
(***************************************************************************)
NumText(neg, mag, fd) == [valid |-> TRUE, neg |-> neg, mag |-> mag, fd |-> fd, raw |-> ""]
BadText(s) == [valid |-> FALSE, neg |-> FALSE, mag |-> 0, fd |-> 0, raw |-> s]
EmptyText == BadText("")

\* isNaN(parseFloat(value)) taken to be false for every text
IsNaNTextNever(t) == FALSE

\* parseFloat(value): the number, or NaN (isNaN) for a text that is no number
IsNaNText(t) == ~t.valid
parseFloat(t) == Rat(IF t.neg THEN 0 - t.mag ELSE t.mag, 1000)

\* Number.prototype.toFixed(fd): x < 0 gives "-" and the digits of -x; the
\* digits are the integer n with n / 10^fd - x closest to zero, the larger n
\* on a tie
toFixed(q, fd) ==
    LET a == Abs(q.n)
        k == Pow10(fd)
        m == (2 * a * k + q.d) \div (2 * q.d)
    IN  NumText(q.n < 0, m * Pow10(3 - fd), fd)

\* the number a text denotes, as parseFloat reads it back
TextValue(t) == IF t.neg THEN 0 - t.mag ELSE t.mag

(***************************************************************************)
(* Bounds of the model and the inputs the events are drawn from.           *)
(***************************************************************************)
MaxEvents == 5                     \* events explored per behaviour

\* pointer positions (clientX, clientY); the body center is at client
\* (Rect.left + BH_CENTER.x, Rect.top + BH_CENTER.y) = (480, 400)
PointerOnRim == [x |-> Rect.left + BH_CENTER.x, y |-> Rect.top + BH_CENTER.y + rs]
PointerOutside == [x |-> Rect.left + BH_CENTER.x + rs + 30, y |-> Rect.top + BH_CENTER.y]
Pointers == {PointerOnRim, PointerOutside}

\* e.deltaY of the wheel events explored
WheelDeltas == {0 - 1600, 1600}

\* e.button: 0 primary, 1 middle, 2 secondary
Buttons == {0, 1, 2}

\* texts typed into the edit dialog's inputs
TextTwo == NumText(FALSE, 2000, 2)
TextNegative == NumText(TRUE, 450500, 1)
TextJunk == BadText("abc")
EditTexts == {TextTwo, TextNegative, TextJunk}
Fields == {"x", "y", "angle"}

(***************************************************************************)
(* The scene.                                                              *)
(***************************************************************************)
Laser(id, x, y, angle) ==
    [id |-> id, x |-> x, y |-> y, fired |-> TRUE, angle |-> angle, direction |-> "right"]

LaserIds == {lasers[i].id : i \in 1..Len(lasers)}

\* lasers.find(l => l.id === id): the first laser with that id
FindIndex(id) ==
    IF id \in LaserIds
    THEN CHOOSE i \in 1..Len(lasers) :
            lasers[i].id = id /\ \A j \in 1..(i - 1) : lasers[j].id # id
    ELSE 0

\* prev.filter(laser => laser.id !== id)
RECURSIVE FilterOut(_, _)
FilterOut(s, id) ==
    IF s = << >> THEN << >>
    ELSE IF Head(s).id # id THEN << Head(s) >> \o FilterOut(Tail(s), id)
         ELSE FilterOut(Tail(s), id)

\* relativeX without the division by zoom
relativeXUnscaled(clientX) == Rat(clientX - Rect.left - BH_CENTER.x - panOffset.x, 1)

\* screen -> world: (x - BH_CENTER.x - panOffset.x) / zoom, and the same for y
relativeX(clientX) == Rat((clientX - Rect.left - BH_CENTER.x - panOffset.x) * ZoomUnit, zoom)
relativeY(clientY) == Rat((clientY - Rect.top - BH_CENTER.y - panOffset.y) * ZoomUnit, zoom)

\* world -> screen, the transform of the lasers' container and the laser's
\* left / top: the container sits at the playground's center (left-1/2
\* top-1/2, no size of its own), is translated by panOffset and scaled by
\* zoom; the laser's center is at (laser.x, laser.y) in it
worldToScreenX(x, z, panX) ==
    Rat(x.n * z + (Rect.left + playgroundWidth \div 2 + panX) * x.d * ZoomUnit,
        x.d * ZoomUnit)
worldToScreenY(y, z, panY) ==
    Rat(y.n * z + (Rect.top + playgroundHeight \div 2 + panY) * y.d * ZoomUnit,
        y.d * ZoomUnit)

\* screen -> world as relativeX and relativeY compute it, for a screen
\* position that is not a whole pixel
screenToWorldX(sx, z, panX) ==
    Rat((sx.n - sx.d * (Rect.left + BH_CENTER.x + panX)) * ZoomUnit, sx.d * z)
screenToWorldY(sy, z, panY) ==
    Rat((sy.n - sy.d * (Rect.top + BH_CENTER.y + panY)) * ZoomUnit, sy.d * z)

LCM(a, b) == (a \div GCD(a, b)) * b

\* Math.hypot(x, y) > r for fractions x, y, r (r >= 0): the squares of the
\* numerators over the common denominator E are compared; a coordinate
\* beyond r decides alone
HypotGreater(x, y, r) ==
    LET E == LCM(LCM(x.d, y.d), r.d)
        X == x.n * (E \div x.d)
        Y == y.n * (E \div y.d)
        R == r.n * (E \div r.d)
    IN  \/ Abs(X) > R
        \/ Abs(Y) > R
        \/ X * X + Y * Y > R * R

\* Math.hypot(x, y) >= r, computed as HypotGreater
HypotAtLeast(x, y, r) ==
    LET E == LCM(LCM(x.d, y.d), r.d)
        X == x.n * (E \div x.d)
        Y == y.n * (E \div y.d)
        R == r.n * (E \div r.d)
    IN  \/ Abs(X) > R
        \/ Abs(Y) > R
        \/ X * X + Y * Y >= R * R

(***************************************************************************)
(* calculateLightPath.  The state vector yState = [r, phi, p_r] is kept    *)
(* exactly for a radial ray on an axis: the start lies on the x or the y   *)
(* axis through the center and the emission angle (0, 90, 180 or 270) is   *)
(* along that axis.  Then L = n_phi * r0 = 0, derivs gives                 *)
(* [p_r, 0 / (r * r), -0.5 * 0] and every rk4 step is r + h * p_r with phi *)
(* and p_r unchanged.  For any other ray the vector is kept by what the    *)
(* loop reads of it: whether r <= effectiveRs * 1.001 (captured) and       *)
(* whether the pixel of (r, phi) fails the distance / canvas test          *)
(* (escaped).  Its first vector is the starting point itself, and both     *)
(* tests are computed from the arguments; the result of an rk4 step is a   *)
(* vector of doubles (NaN included, for which both tests are false), so    *)
(* each later vector may answer the two tests either way.  The points      *)
(* array is kept as the bag of the points pushed; a point of a ray that is *)
(* not radial is kept by its distToCenter field.                           *)
(***************************************************************************)
PathIdle == [pc |-> "idle"]
NoCall == [made |-> FALSE]

\* the number NaN (0 / 0), kept as a fraction with denominator 0; every
\* comparison with it is false
NaN == [n |-> 0, d |-> 0]
IsNaN(q) == q.d = 0

RatAdd(p, q) == Rat(p.n * q.d + q.n * p.d, p.d * q.d)
RatTimes(q, k) == Rat(q.n * k, q.d)
RatAbs(q) == [n |-> Abs(q.n), d |-> q.d]
Sign(k) == IF k > 0 THEN 1 ELSE IF k < 0 THEN 0 - 1 ELSE 0

\* Math.cos and Math.sin of angleDeg * Math.PI / 180 for the angles along an axis
AxisAngles == {0, ShiftAngle, HalfTurn, HalfTurn + ShiftAngle}
AxisCos(angleDeg) ==
    IF angleDeg = 0 THEN 1 ELSE IF angleDeg = HalfTurn THEN 0 - 1 ELSE 0
AxisSin(angleDeg) ==
    IF angleDeg = ShiftAngle THEN 1 ELSE IF angleDeg = HalfTurn + ShiftAngle THEN 0 - 1 ELSE 0

\* n_phi = -vx * sin(phi0) + vy * cos(phi0) is 0 and r0, cos(phi0), sin(phi0)
\* need no square root
IsRadialOnAxis(a) ==
    /\ a.angleDeg \in AxisAngles
    /\ \/ a.relY0.n = 0 /\ AxisSin(a.angleDeg) = 0
       \/ a.relX0.n = 0 /\ AxisCos(a.angleDeg) = 0
       \/ a.relX0.n = 0 /\ a.relY0.n = 0

\* [r0, phi0, p_r0] of a radial ray, phi0 kept as (cos(phi0), sin(phi0));
\* Math.atan2(0, 0) is 0
RadialStart(a) ==
    LET cosPhi0 == IF a.relX0.n = 0 /\ a.relY0.n = 0 THEN 1 ELSE Sign(a.relX0.n)
        sinPhi0 == Sign(a.relY0.n)
        n_r == AxisCos(a.angleDeg) * cosPhi0 + AxisSin(a.angleDeg) * sinPhi0
    IN  [exact |-> TRUE,
         r |-> RatAdd(RatAbs(a.relX0), RatAbs(a.relY0)),
         cosPhi |-> cosPhi0, sinPhi |-> sinPhi0,
         p_r |-> n_r]

\* effectiveRs * 1.001, with rs = bhSize * 0.25 and massFactor = 1 or 0
HorizonRadius(bhSize, gravity) ==
    IF gravity THEN Rat((bhSize \div 4) * 1001, 1000) ELSE RatZero

\* r <= effectiveRs * 1.001 for the starting point: r0 = hypot(relX0, relY0)
StartCaptured(a) ==
    ~HypotGreater(a.relX0, a.relY0, HorizonRadius(a.bhSize, a.gravityEnabled))

\* the escape test of the starting point left out
StartEscapedNever(a) == FALSE

\* the escape test for the starting point: xPix = startX, yPix = startY and
\* distFromCenter = r0; maxDistance = max(width, height) * (1.5 / zoom),
\* factor = 1 / zoom
StartEscaped(a) ==
    LET maxDistance == Rat(Max2(a.width, a.height) * 1500, a.zoom)
        xPix == Rat(a.relX0.n + a.relX0.d * (a.width \div 2), a.relX0.d)
        yPix == Rat(a.relY0.n + a.relY0.d * (a.height \div 2), a.relY0.d)
        xEdge == Rat(a.width * ZoomUnit, a.zoom)
        yEdge == Rat(a.height * ZoomUnit, a.zoom)
    IN  \/ HypotGreater(a.relX0, a.relY0, maxDistance)
        \/ RatLess(xPix, RatNeg(xEdge)) \/ RatLess(xEdge, xPix)
        \/ RatLess(yPix, RatNeg(yEdge)) \/ RatLess(yEdge, yPix)

\* let yState = [r0, phi0, p_r0]
StartState(a) ==
    IF IsRadialOnAxis(a)
    THEN RadialStart(a)
    ELSE [exact |-> FALSE, captured |-> StartCaptured(a), escaped |-> StartEscaped(a)]

\* xPix = r * Math.cos(phi) + centerX, yPix = r * Math.sin(phi) + centerY
PixelX(y, a) ==
    IF IsNaN(y.r) THEN NaN ELSE RatAdd(RatTimes(y.r, y.cosPhi), Rat(a.width, 2))
PixelY(y, a) ==
    IF IsNaN(y.r) THEN NaN ELSE RatAdd(RatTimes(y.r, y.sinPhi), Rat(a.height, 2))

\* the capture test left out
CapturedNever(y, a) == FALSE

\* if (r <= effectiveRs * 1.001) break
Captured(y, a) ==
    IF y.exact
    THEN ~IsNaN(y.r) /\ ~RatLess(HorizonRadius(a.bhSize, a.gravityEnabled), y.r)
    ELSE y.captured

\* if (distFromCenter > maxDistance || xPix < -factor*width || xPix > width * factor ||
\*     yPix < -factor*height || yPix > height * factor) break
\* with distFromCenter = hypot(xPix - centerX, yPix - centerY) = |r|
Escaped(y, a) ==
    IF y.exact
    THEN LET maxDistance == Rat(Max2(a.width, a.height) * 1500, a.zoom)
             xEdge == Rat(a.width * ZoomUnit, a.zoom)
             yEdge == Rat(a.height * ZoomUnit, a.zoom)
         IN  /\ ~IsNaN(y.r)
             /\ \/ RatLess(maxDistance, RatAbs(y.r))
                \/ RatLess(PixelX(y, a), RatNeg(xEdge)) \/ RatLess(xEdge, PixelX(y, a))
                \/ RatLess(PixelY(y, a), RatNeg(yEdge)) \/ RatLess(yEdge, PixelY(y, a))
    ELSE y.escaped

\* the point pushed with the number of lasers of the scene written into it
PathPointCountingLasers(y, a) ==
    IF y.exact
    THEN [x |-> PixelX(y, a), y |-> PixelY(y, a), distToCenter |-> Rat(Len(lasers), 1)]
    ELSE [distToCenter |-> Rat(Len(lasers), 1)]

\* points.push({ x: xPix, y: yPix, distToCenter: zoom })
PathPoint(y, a) ==
    IF y.exact
    THEN [x |-> PixelX(y, a), y |-> PixelY(y, a), distToCenter |-> Rat(a.zoom, ZoomUnit)]
    ELSE [distToCenter |-> Rat(a.zoom, ZoomUnit)]

\* the vectors rk4(yState, h, derivs) may return, h = rs * 0.01.  The r of a
\* radial ray moves by h * p_r.  derivs divides by r (L / (r * r), -2 / r^3
\* and 3 * effectiveRs / r^4): read at the midpoint r + h/2 * p_r = 0, k2
\* holds NaN, k3[0] = p_r + h/2 * k2[2] is NaN, and so is every component
\* of the vector returned; NaN stays NaN in the steps that follow.  (r
\* itself is not 0 here: the capture test has left the loop before.)  The
\* vector of a ray that is not radial is kept by its answers to the two
\* tests, any answers
rk4(y, a) ==
    LET h == Rat(a.bhSize, 400)
        mid == RatAdd(y.r, RatTimes(Rat(a.bhSize, 800), y.p_r))
    IN  IF y.exact
        THEN IF IsNaN(y.r) THEN {y}
             ELSE IF mid.n = 0 THEN {[y EXCEPT !.r = NaN]}
             ELSE {[y EXCEPT !.r = RatAdd(y.r, RatTimes(h, y.p_r))]}
        ELSE [exact : {FALSE}, captured : BOOLEAN, escaped : BOOLEAN]

\* the call of the render for a fired laser:
\* calculateLightPath(laser.x + size.width / 2, laser.y + size.height / 2,
\*                    laser.angle, size.width, size.height, BH_SIZE, zoom,
\*                    gravityEnabled)
\* relX0 = startX - centerX = laser.x with centerX = width / 2, and so for y
PathArgs(laser) ==
    [relX0 |-> laser.x, relY0 |-> laser.y, angleDeg |-> laser.angle,
     width |-> size.width, height |-> size.height,
     bhSize |-> Min2(Min2(size.width, size.height), BHSizeCap),
     zoom |-> zoom, gravityEnabled |-> gravityEnabled]

\* the function's entry: points = [], yState = [r0, phi0, p_r0], step = 0
calculateLightPathEnter(i) ==
    /\ path.pc # "loop"
    /\ lasers[i].fired
    /\ path' = [pc |-> "loop",
                args |-> PathArgs(lasers[i]),
                step |-> 0,
                yState |-> StartState(PathArgs(lasers[i])),
                points |-> EmptyBag,
                end |-> "none"]
    /\ UNCHANGED << sceneVars, size, earlier >>

\* the loop's guard with no step budget
LoopGuardUnbounded(step) == TRUE

\* for (let step = 0; step < maxSteps; step++)
LoopGuard(step) == step < maxSteps

\* one pass of the for statement: the guard, then the body (capture test,
\* escape test, points.push, rk4 step) and step++; `return points` when the
\* loop is left
calculateLightPathLoop ==
    /\ path.pc = "loop"
    /\ IF ~LoopGuard(path.step)
       THEN path' = [path EXCEPT !.pc = "done", !.end = "budget"]
       ELSE IF Captured(path.yState, path.args)
       THEN path' = [path EXCEPT !.pc = "done", !.end = "capture"]
       ELSE IF Escaped(path.yState, path.args)
       THEN path' = [path EXCEPT !.pc = "done", !.end = "escape"]
       ELSE \E next \in rk4(path.yState, path.args) :
               path' = [path EXCEPT
                          !.points = @ (+) SetToBag({PathPoint(path.yState, path.args)}),
                          !.yState = next,
                          !.step = @ + 1]
    /\ UNCHANGED << sceneVars, size, earlier >>

Init ==
    /\ zoom = ZoomUnit
    /\ gravityEnabled = FALSE
    /\ editingLaserId = NULL
    /\ tempInputValues = [x |-> EmptyText, y |-> EmptyText, angle |-> EmptyText]
    /\ lasers = << >>
    /\ nextId = 0
    /\ isDragging = FALSE
    /\ draggedLaserId = NULL
    /\ rotatingLaserId = NULL
    /\ lastMouseX = NULL
    /\ panOffset = [x |-> 0, y |-> 0]
    /\ isPanning = FALSE
    /\ panStart = [x |-> 0, y |-> 0]
    /\ wasPanning = FALSE
    /\ ev = [type |-> "init"]
    /\ eventCount = 0
    /\ path = PathIdle
    /\ size = [width |-> Width, height |-> Height]
    /\ earlier = NoCall

(***************************************************************************)
(* Viewport handlers.                                                      *)
(***************************************************************************)
\* handleWheel without `if (next > maxZoom) next = maxZoom`
handleWheelNoUpperClamp(deltaY) ==
    LET next0 == zoom - deltaY
        next1 == IF next0 < minZoom THEN minZoom ELSE next0
    IN  /\ zoom' = next1
        /\ ev' = [type |-> "wheel", deltaY |-> deltaY]
        /\ UNCHANGED << gravityEnabled, editingLaserId, tempInputValues, lasers, nextId,
                        isDragging, draggedLaserId, rotatingLaserId, lastMouseX,
                        panOffset, isPanning, panStart, wasPanning >>

\* handleWheel that also ends the gestures in progress
handleWheelEndingGestures(deltaY) ==
    LET next0 == zoom - deltaY
        next1 == IF next0 < minZoom THEN minZoom ELSE next0
        next2 == IF next1 > maxZoom THEN maxZoom ELSE next1
    IN  /\ zoom' = next2
        /\ isDragging' = FALSE
        /\ rotatingLaserId' = NULL
        /\ isPanning' = FALSE
        /\ ev' = [type |-> "wheel", deltaY |-> deltaY]
        /\ UNCHANGED << gravityEnabled, editingLaserId, tempInputValues, lasers, nextId,
                        draggedLaserId, lastMouseX, panOffset, panStart, wasPanning >>

\* handleWheel: next = z - e.deltaY * 0.001, then the two clamping ifs
handleWheel(deltaY) ==
    LET next0 == zoom - deltaY
        next1 == IF next0 < minZoom THEN minZoom ELSE next0
        next2 == IF next1 > maxZoom THEN maxZoom ELSE next1
    IN  /\ zoom' = next2
        /\ ev' = [type |-> "wheel", deltaY |-> deltaY]
        /\ UNCHANGED << gravityEnabled, editingLaserId, tempInputValues, lasers, nextId,
                        isDragging, draggedLaserId, rotatingLaserId, lastMouseX,
                        panOffset, isPanning, panStart, wasPanning >>

\* zoom-out button: setZoom(z => Math.max(minZoom, z - 0.2))
ZoomOutClick ==
    /\ zoom' = Max2(minZoom, zoom - ZoomButtonStep)
    /\ ev' = [type |-> "zoomOut"]
    /\ UNCHANGED << gravityEnabled, editingLaserId, tempInputValues, lasers, nextId,
                    isDragging, draggedLaserId, rotatingLaserId, lastMouseX,
                    panOffset, isPanning, panStart, wasPanning >>

\* zoom-in button: setZoom(z => Math.min(maxZoom, z + 0.2))
ZoomInClick ==
    /\ zoom' = Min2(maxZoom, zoom + ZoomButtonStep)
    /\ ev' = [type |-> "zoomIn"]
    /\ UNCHANGED << gravityEnabled, editingLaserId, tempInputValues, lasers, nextId,
                    isDragging, draggedLaserId, rotatingLaserId, lastMouseX,
                    panOffset, isPanning, panStart, wasPanning >>

\* gravity toggle: setGravityEnabled(!gravityEnabled)
GravityToggleClick ==
    /\ gravityEnabled' = ~gravityEnabled
    /\ ev' = [type |-> "gravity"]
    /\ UNCHANGED << zoom, editingLaserId, tempInputValues, lasers, nextId,
                    isDragging, draggedLaserId, rotatingLaserId, lastMouseX,
                    panOffset, isPanning, panStart, wasPanning >>

(***************************************************************************)
(* Scene handlers.                                                         *)
(***************************************************************************)
\* const blackHoleRadius = rs / zoom
blackHoleRadius == Rat(rs * ZoomUnit, zoom)

\* the placement test, with a rim that admits the click (>= for >)
PlacementAllowedOnRim(relX, relY) ==
    \/ HypotGreater(relX, relY, blackHoleRadius)
    \/ ~HypotGreater(relX, relY, blackHoleRadius) /\ HypotAtLeast(relX, relY, blackHoleRadius)

\* distanceFromCenter > blackHoleRadius, with
\* distanceFromCenter = Math.hypot(relativeX, relativeY)
PlacementAllowed(relX, relY) == HypotGreater(relX, relY, blackHoleRadius)

\* handleCanvasClick with the new laser put in front: [newLaser, ...prev]
handleCanvasClickPrepending(clientX, clientY, shiftKey) ==
    LET newLaser == Laser(nextId, relativeX(clientX), relativeY(clientY),
                          IF shiftKey THEN ShiftAngle ELSE 0)
    IN  /\ ev' = [type |-> "click", x |-> clientX, y |-> clientY, shiftKey |-> shiftKey]
        /\ IF wasPanning
           THEN /\ wasPanning' = FALSE
                /\ UNCHANGED << lasers, nextId >>
           ELSE /\ UNCHANGED wasPanning
                /\ IF isDragging \/ isPanning
                   THEN UNCHANGED << lasers, nextId >>
                   ELSE IF PlacementAllowed(relativeX(clientX), relativeY(clientY))
                        THEN /\ lasers' = << newLaser >> \o lasers
                             /\ nextId' = nextId + 1
                        ELSE UNCHANGED << lasers, nextId >>
        /\ UNCHANGED << zoom, gravityEnabled, editingLaserId, tempInputValues,
                        isDragging, draggedLaserId, rotatingLaserId, lastMouseX,
                        panOffset, isPanning, panStart >>

\* handleCanvasClick with angle: 0 whatever e.shiftKey
handleCanvasClickNoShift(clientX, clientY, shiftKey) ==
    LET newLaser == Laser(nextId, relativeX(clientX), relativeY(clientY),
                          0)
    IN  /\ ev' = [type |-> "click", x |-> clientX, y |-> clientY, shiftKey |-> shiftKey]
        /\ IF wasPanning
           THEN /\ wasPanning' = FALSE
                /\ UNCHANGED << lasers, nextId >>
           ELSE /\ UNCHANGED wasPanning
                /\ IF isDragging \/ isPanning
                   THEN UNCHANGED << lasers, nextId >>
                   ELSE IF PlacementAllowed(relativeX(clientX), relativeY(clientY))
                        THEN /\ lasers' = Append(lasers, newLaser)
                             /\ nextId' = nextId + 1
                        ELSE UNCHANGED << lasers, nextId >>
        /\ UNCHANGED << zoom, gravityEnabled, editingLaserId, tempInputValues,
                        isDragging, draggedLaserId, rotatingLaserId, lastMouseX,
                        panOffset, isPanning, panStart >>

\* handleCanvasClick
handleCanvasClick(clientX, clientY, shiftKey) ==
    LET newLaser == Laser(nextId, relativeX(clientX), relativeY(clientY),
                          IF shiftKey THEN ShiftAngle ELSE 0)
    IN  /\ ev' = [type |-> "click", x |-> clientX, y |-> clientY, shiftKey |-> shiftKey]
        /\ IF wasPanning
           THEN /\ wasPanning' = FALSE
                /\ UNCHANGED << lasers, nextId >>
           ELSE /\ UNCHANGED wasPanning
                /\ IF isDragging \/ isPanning
                   THEN UNCHANGED << lasers, nextId >>
                   ELSE IF PlacementAllowed(relativeX(clientX), relativeY(clientY))
                        THEN /\ lasers' = Append(lasers, newLaser)
                             /\ nextId' = nextId + 1
                        ELSE UNCHANGED << lasers, nextId >>
        /\ UNCHANGED << zoom, gravityEnabled, editingLaserId, tempInputValues,
                        isDragging, draggedLaserId, rotatingLaserId, lastMouseX,
                        panOffset, isPanning, panStart >>

\* handleLaserDoubleClick by index: prev.splice(prev.findIndex(...), 1), which
\* for an id that is not found (index -1) takes out the last laser
handleLaserDoubleClickSplicing(id) ==
    /\ lasers' = IF id \in LaserIds
                 THEN FilterOut(lasers, id)
                 ELSE SubSeq(lasers, 1, Len(lasers) - 1)
    /\ ev' = [type |-> "dblclick", id |-> id]
    /\ UNCHANGED << zoom, gravityEnabled, editingLaserId, tempInputValues, nextId,
                    isDragging, draggedLaserId, rotatingLaserId, lastMouseX,
                    panOffset, isPanning, panStart, wasPanning >>

\* handleLaserDoubleClick that drops the laser and those placed after it
handleLaserDoubleClickTruncating(id) ==
    /\ lasers' = SubSeq(lasers, 1, FindIndex(id) - 1)
    /\ ev' = [type |-> "dblclick", id |-> id]
    /\ UNCHANGED << zoom, gravityEnabled, editingLaserId, tempInputValues, nextId,
                    isDragging, draggedLaserId, rotatingLaserId, lastMouseX,
                    panOffset, isPanning, panStart, wasPanning >>

\* handleLaserDoubleClick
handleLaserDoubleClick(id) ==
    /\ lasers' = FilterOut(lasers, id)
    /\ ev' = [type |-> "dblclick", id |-> id]
    /\ UNCHANGED << zoom, gravityEnabled, editingLaserId, tempInputValues, nextId,
                    isDragging, draggedLaserId, rotatingLaserId, lastMouseX,
                    panOffset, isPanning, panStart, wasPanning >>

\* handleCleanAll that also restarts the id counter
handleCleanAllResetIds ==
    /\ lasers' = << >>
    /\ nextId' = 0
    /\ ev' = [type |-> "cleanAll"]
    /\ UNCHANGED << zoom, gravityEnabled, editingLaserId, tempInputValues,
                    isDragging, draggedLaserId, rotatingLaserId, lastMouseX,
                    panOffset, isPanning, panStart, wasPanning >>

\* handleCleanAll that also puts the viewport back
handleCleanAllResetView ==
    /\ lasers' = << >>
    /\ zoom' = ZoomUnit
    /\ panOffset' = [x |-> 0, y |-> 0]
    /\ ev' = [type |-> "cleanAll"]
    /\ UNCHANGED << gravityEnabled, editingLaserId, tempInputValues, nextId,
                    isDragging, draggedLaserId, rotatingLaserId, lastMouseX,
                    isPanning, panStart, wasPanning >>

\* handleCleanAll
handleCleanAll ==
    /\ lasers' = << >>
    /\ ev' = [type |-> "cleanAll"]
    /\ UNCHANGED << zoom, gravityEnabled, editingLaserId, tempInputValues, nextId,
                    isDragging, draggedLaserId, rotatingLaserId, lastMouseX,
                    panOffset, isPanning, panStart, wasPanning >>

\* let displayAngle = -laser.angle;
\* while (displayAngle > 180) displayAngle -= 360;
\* while (displayAngle <= -180) displayAngle += 360;
RECURSIVE DisplayAngleLoop(_)
DisplayAngleLoop(a) ==
    IF a > HalfTurn THEN DisplayAngleLoop(a - FullTurn)
    ELSE IF a <= 0 - HalfTurn THEN DisplayAngleLoop(a + FullTurn)
    ELSE a

\* the values staged when the edit dialog opens on a laser
StagedValues(laser) ==
    LET xInRs == Rat(laser.x.n, laser.x.d * rs)
        yInRs == Rat(0 - laser.y.n, laser.y.d * rs)
        displayAngle == DisplayAngleLoop(0 - laser.angle)
    IN  [x |-> toFixed(xInRs, 2),
         y |-> toFixed(yInRs, 2),
         angle |-> toFixed(Rat(displayAngle, 1000), 1)]

\* handleLaserMouseDown with no else before the rotation: Shift + secondary
\* button opens the dialog and starts a rotation
handleLaserMouseDownRotating(id, button, shiftKey, altKey, clientX) ==
    /\ ev' = [type |-> "laserDown", id |-> id, button |-> button,
              shiftKey |-> shiftKey, altKey |-> altKey, x |-> clientX]
    /\ IF button = 0
       THEN /\ isDragging' = TRUE
            /\ draggedLaserId' = id
            /\ UNCHANGED << editingLaserId, tempInputValues, rotatingLaserId, lastMouseX >>
       ELSE IF button = 2
       THEN IF shiftKey
            THEN /\ IF FindIndex(id) # 0
                    THEN /\ tempInputValues' = StagedValues(lasers[FindIndex(id)])
                         /\ editingLaserId' = id
                    ELSE UNCHANGED << editingLaserId, tempInputValues >>
                 /\ rotatingLaserId' = id
                 /\ lastMouseX' = clientX
                 /\ UNCHANGED << isDragging, draggedLaserId >>
            ELSE /\ rotatingLaserId' = id
                 /\ lastMouseX' = clientX
                 /\ UNCHANGED << isDragging, draggedLaserId, editingLaserId, tempInputValues >>
       ELSE UNCHANGED << isDragging, draggedLaserId, editingLaserId, tempInputValues,
                         rotatingLaserId, lastMouseX >>
    /\ UNCHANGED << zoom, gravityEnabled, lasers, nextId, panOffset, isPanning,
                    panStart, wasPanning >>

\* handleLaserMouseDown without e.stopPropagation(): the middle button, or
\* Alt + primary button, pressed on a laser starts a pan as well
handleLaserMouseDownPropagating(id, button, shiftKey, altKey, clientX) ==
    /\ ev' = [type |-> "laserDown", id |-> id, button |-> button,
              shiftKey |-> shiftKey, altKey |-> altKey, x |-> clientX]
    /\ IF button = 0
       THEN /\ isDragging' = TRUE
            /\ draggedLaserId' = id
            /\ UNCHANGED << editingLaserId, tempInputValues, rotatingLaserId, lastMouseX >>
       ELSE IF button = 2
       THEN IF shiftKey
            THEN /\ IF FindIndex(id) # 0
                    THEN /\ tempInputValues' = StagedValues(lasers[FindIndex(id)])
                         /\ editingLaserId' = id
                    ELSE UNCHANGED << editingLaserId, tempInputValues >>
                 /\ UNCHANGED << isDragging, draggedLaserId, rotatingLaserId, lastMouseX >>
            ELSE /\ rotatingLaserId' = id
                 /\ lastMouseX' = clientX
                 /\ UNCHANGED << isDragging, draggedLaserId, editingLaserId, tempInputValues >>
       ELSE UNCHANGED << isDragging, draggedLaserId, editingLaserId, tempInputValues,
                         rotatingLaserId, lastMouseX >>
    /\ IF button = 1 \/ (button = 0 /\ altKey)
       THEN isPanning' = TRUE
       ELSE UNCHANGED isPanning
    /\ UNCHANGED << zoom, gravityEnabled, lasers, nextId, panOffset, panStart, wasPanning >>

\* handleLaserMouseDown (the laser's onMouseDown; propagation is stopped, so
\* the playground's handleMouseDown does not run; e.altKey is not read)
handleLaserMouseDown(id, button, shiftKey, altKey, clientX) ==
    /\ ev' = [type |-> "laserDown", id |-> id, button |-> button,
              shiftKey |-> shiftKey, altKey |-> altKey, x |-> clientX]
    /\ IF button = 0
       THEN /\ isDragging' = TRUE
            /\ draggedLaserId' = id
            /\ UNCHANGED << editingLaserId, tempInputValues, rotatingLaserId, lastMouseX >>
       ELSE IF button = 2
       THEN IF shiftKey
            THEN /\ IF FindIndex(id) # 0
                    THEN /\ tempInputValues' = StagedValues(lasers[FindIndex(id)])
                         /\ editingLaserId' = id
                    ELSE UNCHANGED << editingLaserId, tempInputValues >>
                 /\ UNCHANGED << isDragging, draggedLaserId, rotatingLaserId, lastMouseX >>
            ELSE /\ rotatingLaserId' = id
                 /\ lastMouseX' = clientX
                 /\ UNCHANGED << isDragging, draggedLaserId, editingLaserId, tempInputValues >>
       ELSE UNCHANGED << isDragging, draggedLaserId, editingLaserId, tempInputValues,
                         rotatingLaserId, lastMouseX >>
    /\ UNCHANGED << zoom, gravityEnabled, lasers, nextId, panOffset, isPanning,
                    panStart, wasPanning >>

\* the edit with y stored as typed, not negated
EditedLaserSameY(laser, field, value) ==
    LET numValue == parseFloat(value)
    IN  IF field = "x" THEN [laser EXCEPT !.x = Rat(numValue.n * rs, numValue.d)]
        ELSE IF field = "y" THEN [laser EXCEPT !.y = Rat(numValue.n * rs, numValue.d)]
        ELSE [laser EXCEPT !.angle =
                 JsRem(JsRem(0 - TextValue(value), FullTurn) + FullTurn, FullTurn)]

\* the edit with x and y taken as screen distances, divided by zoom
EditedLaserZoomed(laser, field, value) ==
    LET numValue == parseFloat(value)
    IN  IF field = "x"
        THEN [laser EXCEPT !.x = Rat(numValue.n * rs * ZoomUnit, numValue.d * zoom)]
        ELSE IF field = "y"
        THEN [laser EXCEPT !.y = Rat((0 - numValue.n) * rs * ZoomUnit, numValue.d * zoom)]
        ELSE [laser EXCEPT !.angle =
                 JsRem(JsRem(0 - TextValue(value), FullTurn) + FullTurn, FullTurn)]

\* the laser object a valid edit of `field` produces
EditedLaser(laser, field, value) ==
    LET numValue == parseFloat(value)
    IN  IF field = "x" THEN [laser EXCEPT !.x = Rat(numValue.n * rs, numValue.d)]
        ELSE IF field = "y" THEN [laser EXCEPT !.y = Rat((0 - numValue.n) * rs, numValue.d)]
        ELSE [laser EXCEPT !.angle =
                 JsRem(JsRem(0 - TextValue(value), FullTurn) + FullTurn, FullTurn)]

\* handleLaserEdit
handleLaserEdit(field, value) ==
    /\ ev' = [type |-> "edit", field |-> field, value |-> value]
    /\ IF editingLaserId # NULL
       THEN /\ tempInputValues' = [tempInputValues EXCEPT ![field] = value]
            /\ IF ~IsNaNText(value)
               THEN lasers' = [i \in 1..Len(lasers) |->
                                 IF lasers[i].id = editingLaserId
                                 THEN EditedLaser(lasers[i], field, value)
                                 ELSE lasers[i]]
               ELSE UNCHANGED lasers
       ELSE UNCHANGED << tempInputValues, lasers >>
    /\ UNCHANGED << zoom, gravityEnabled, editingLaserId, nextId,
                    isDragging, draggedLaserId, rotatingLaserId, lastMouseX,
                    panOffset, isPanning, panStart, wasPanning >>

\* handleCloseLaserEdit
handleCloseLaserEdit ==
    /\ editingLaserId' = NULL
    /\ ev' = [type |-> "closeEdit"]
    /\ UNCHANGED << zoom, gravityEnabled, tempInputValues, lasers, nextId,
                    isDragging, draggedLaserId, rotatingLaserId, lastMouseX,
                    panOffset, isPanning, panStart, wasPanning >>

(***************************************************************************)
(* Pointer handlers of the playground.                                     *)
(***************************************************************************)
\* handleMouseMove with a drag that moves every laser of the scene
handleMouseMoveAllLasers(clientX, clientY) ==
    /\ ev' = [type |-> "move", x |-> clientX, y |-> clientY]
    /\ IF rotatingLaserId # NULL /\ lastMouseX # NULL
       THEN LET deltaX == clientX - lastMouseX
            IN  /\ lasers' = [i \in 1..Len(lasers) |->
                                IF lasers[i].id = rotatingLaserId
                                THEN [lasers[i] EXCEPT !.angle =
                                         normalizeAngle(lasers[i].angle + deltaX * RotateGain)]
                                ELSE lasers[i]]
                /\ lastMouseX' = clientX
                /\ UNCHANGED panOffset
       ELSE IF isDragging /\ draggedLaserId # NULL
       THEN /\ lasers' = [i \in 1..Len(lasers) |->
                            IF TRUE
                            THEN [lasers[i] EXCEPT !.x = relativeX(clientX),
                                                   !.y = relativeY(clientY)]
                            ELSE lasers[i]]
            /\ UNCHANGED << lastMouseX, panOffset >>
       ELSE IF isPanning
       THEN /\ panOffset' = [x |-> clientX - panStart.x, y |-> clientY - panStart.y]
            /\ UNCHANGED << lasers, lastMouseX >>
       ELSE UNCHANGED << lasers, lastMouseX, panOffset >>
    /\ UNCHANGED << zoom, gravityEnabled, editingLaserId, tempInputValues, nextId,
                    isDragging, draggedLaserId, rotatingLaserId,
                    isPanning, panStart, wasPanning >>

\* handleMouseMove with the branches in the order pan, drag, rotate
handleMouseMovePanFirst(clientX, clientY) ==
    /\ ev' = [type |-> "move", x |-> clientX, y |-> clientY]
    /\ IF isPanning
       THEN /\ panOffset' = [x |-> clientX - panStart.x, y |-> clientY - panStart.y]
            /\ UNCHANGED << lasers, lastMouseX >>
       ELSE IF isDragging /\ draggedLaserId # NULL
       THEN /\ lasers' = [i \in 1..Len(lasers) |->
                            IF lasers[i].id = draggedLaserId
                            THEN [lasers[i] EXCEPT !.x = relativeX(clientX),
                                                   !.y = relativeY(clientY)]
                            ELSE lasers[i]]
            /\ UNCHANGED << lastMouseX, panOffset >>
       ELSE IF rotatingLaserId # NULL /\ lastMouseX # NULL
       THEN LET deltaX == clientX - lastMouseX
            IN  /\ lasers' = [i \in 1..Len(lasers) |->
                                IF lasers[i].id = rotatingLaserId
                                THEN [lasers[i] EXCEPT !.angle =
                                         normalizeAngle(lasers[i].angle + deltaX * RotateGain)]
                                ELSE lasers[i]]
                /\ lastMouseX' = clientX
                /\ UNCHANGED panOffset
       ELSE UNCHANGED << lasers, lastMouseX, panOffset >>
    /\ UNCHANGED << zoom, gravityEnabled, editingLaserId, tempInputValues, nextId,
                    isDragging, draggedLaserId, rotatingLaserId,
                    isPanning, panStart, wasPanning >>

\* handleMouseMove without setLastMouseX(e.clientX)
handleMouseMoveKeepingLastX(clientX, clientY) ==
    /\ ev' = [type |-> "move", x |-> clientX, y |-> clientY]
    /\ IF rotatingLaserId # NULL /\ lastMouseX # NULL
       THEN LET deltaX == clientX - lastMouseX
            IN  /\ lasers' = [i \in 1..Len(lasers) |->
                                IF lasers[i].id = rotatingLaserId
                                THEN [lasers[i] EXCEPT !.angle =
                                         normalizeAngle(lasers[i].angle + deltaX * RotateGain)]
                                ELSE lasers[i]]
                /\ UNCHANGED << lastMouseX, panOffset >>
       ELSE IF isDragging /\ draggedLaserId # NULL
       THEN /\ lasers' = [i \in 1..Len(lasers) |->
                            IF lasers[i].id = draggedLaserId
                            THEN [lasers[i] EXCEPT !.x = relativeX(clientX),
                                                   !.y = relativeY(clientY)]
                            ELSE lasers[i]]
            /\ UNCHANGED << lastMouseX, panOffset >>
       ELSE IF isPanning
       THEN /\ panOffset' = [x |-> clientX - panStart.x, y |-> clientY - panStart.y]
            /\ UNCHANGED << lasers, lastMouseX >>
       ELSE UNCHANGED << lasers, lastMouseX, panOffset >>
    /\ UNCHANGED << zoom, gravityEnabled, editingLaserId, tempInputValues, nextId,
                    isDragging, draggedLaserId, rotatingLaserId,
                    isPanning, panStart, wasPanning >>

\* handleMouseMove: rotate, else drag, else pan
handleMouseMove(clientX, clientY) ==
    /\ ev' = [type |-> "move", x |-> clientX, y |-> clientY]
    /\ IF rotatingLaserId # NULL /\ lastMouseX # NULL
       THEN LET deltaX == clientX - lastMouseX
            IN  /\ lasers' = [i \in 1..Len(lasers) |->
                                IF lasers[i].id = rotatingLaserId
                                THEN [lasers[i] EXCEPT !.angle =
                                         normalizeAngle(lasers[i].angle + deltaX * RotateGain)]
                                ELSE lasers[i]]
                /\ lastMouseX' = clientX
                /\ UNCHANGED panOffset
       ELSE IF isDragging /\ draggedLaserId # NULL
       THEN /\ lasers' = [i \in 1..Len(lasers) |->
                            IF lasers[i].id = draggedLaserId
                            THEN [lasers[i] EXCEPT !.x = relativeX(clientX),
                                                   !.y = relativeY(clientY)]
                            ELSE lasers[i]]
            /\ UNCHANGED << lastMouseX, panOffset >>
       ELSE IF isPanning
       THEN /\ panOffset' = [x |-> clientX - panStart.x, y |-> clientY - panStart.y]
            /\ UNCHANGED << lasers, lastMouseX >>
       ELSE UNCHANGED << lasers, lastMouseX, panOffset >>
    /\ UNCHANGED << zoom, gravityEnabled, editingLaserId, tempInputValues, nextId,
                    isDragging, draggedLaserId, rotatingLaserId,
                    isPanning, panStart, wasPanning >>

\* handleMouseDown with panStart = the pointer, the pan offset not taken off
handleMouseDownFromOrigin(button, altKey, clientX, clientY) ==
    /\ ev' = [type |-> "down", button |-> button, altKey |-> altKey,
              x |-> clientX, y |-> clientY]
    /\ IF button = 1 \/ (button = 0 /\ altKey)
       THEN /\ isPanning' = TRUE
            /\ panStart' = [x |-> clientX, y |-> clientY]
       ELSE UNCHANGED << isPanning, panStart >>
    /\ UNCHANGED << zoom, gravityEnabled, editingLaserId, tempInputValues, lasers, nextId,
                    isDragging, draggedLaserId, rotatingLaserId, lastMouseX,
                    panOffset, wasPanning >>

\* handleMouseDown: middle button, or Alt + primary button
handleMouseDown(button, altKey, clientX, clientY) ==
    /\ ev' = [type |-> "down", button |-> button, altKey |-> altKey,
              x |-> clientX, y |-> clientY]
    /\ IF button = 1 \/ (button = 0 /\ altKey)
       THEN /\ isPanning' = TRUE
            /\ panStart' = [x |-> clientX - panOffset.x, y |-> clientY - panOffset.y]
       ELSE UNCHANGED << isPanning, panStart >>
    /\ UNCHANGED << zoom, gravityEnabled, editingLaserId, tempInputValues, lasers, nextId,
                    isDragging, draggedLaserId, rotatingLaserId, lastMouseX,
                    panOffset, wasPanning >>

\* handleMouseUp without setWasPanning(true)
handleMouseUpNoLatch(button) ==
    /\ ev' = [type |-> "up", button |-> button]
    /\ IF button = 0
       THEN /\ isDragging' = FALSE
            /\ draggedLaserId' = NULL
            /\ isPanning' = FALSE
            /\ UNCHANGED << rotatingLaserId, lastMouseX >>
       ELSE IF button = 2
       THEN /\ rotatingLaserId' = NULL
            /\ lastMouseX' = NULL
            /\ UNCHANGED << isDragging, draggedLaserId, isPanning >>
       ELSE IF button = 1
       THEN /\ isPanning' = FALSE
            /\ UNCHANGED << isDragging, draggedLaserId, rotatingLaserId, lastMouseX >>
       ELSE UNCHANGED << isDragging, draggedLaserId, rotatingLaserId, lastMouseX,
                         isPanning >>
    /\ UNCHANGED << zoom, gravityEnabled, editingLaserId, tempInputValues, lasers, nextId,
                    panOffset, panStart, wasPanning >>

\* handleMouseUp
handleMouseUp(button) ==
    /\ ev' = [type |-> "up", button |-> button]
    /\ IF button = 0
       THEN /\ isDragging' = FALSE
            /\ draggedLaserId' = NULL
            /\ IF isPanning
               THEN isPanning' = FALSE /\ wasPanning' = TRUE
               ELSE UNCHANGED << isPanning, wasPanning >>
            /\ UNCHANGED << rotatingLaserId, lastMouseX >>
       ELSE IF button = 2
       THEN /\ rotatingLaserId' = NULL
            /\ lastMouseX' = NULL
            /\ UNCHANGED << isDragging, draggedLaserId, isPanning, wasPanning >>
       ELSE IF button = 1
       THEN /\ IF isPanning
               THEN isPanning' = FALSE /\ wasPanning' = TRUE
               ELSE UNCHANGED << isPanning, wasPanning >>
            /\ UNCHANGED << isDragging, draggedLaserId, rotatingLaserId, lastMouseX >>
       ELSE UNCHANGED << isDragging, draggedLaserId, rotatingLaserId, lastMouseX,
                         isPanning, wasPanning >>
    /\ UNCHANGED << zoom, gravityEnabled, editingLaserId, tempInputValues, lasers, nextId,
                    panOffset, panStart >>

(***************************************************************************)
(* The events the browser delivers.  A laser's events exist for the lasers *)
(* of the scene (its element is rendered from `lasers`).  The modifier and *)
(* pointer of an event vary where the handler reads them.                  *)
(***************************************************************************)
PointerXs == {p.x : p \in Pointers}

LaserDownEvents ==
    {e \in [button : Buttons, shiftKey : BOOLEAN, altKey : BOOLEAN, x : PointerXs] :
        /\ e.button # 2 => ~e.shiftKey
        /\ e.button # 0 => ~e.altKey
        /\ (e.button # 2 \/ e.shiftKey) => e.x = PointerOutside.x}

MouseDownEvents ==
    {e \in [button : Buttons, altKey : BOOLEAN, p : Pointers] :
        /\ e.button # 0 => ~e.altKey
        /\ ~(e.button = 1 \/ (e.button = 0 /\ e.altKey)) => e.p = PointerOutside}

\* one more event is delivered
Tick == eventCount < MaxEvents /\ eventCount' = eventCount + 1
        /\ UNCHANGED << path, size, earlier >>

Next ==
    \/ \E d \in WheelDeltas : Tick /\ handleWheel(d)
    \/ Tick /\ ZoomOutClick
    \/ Tick /\ ZoomInClick
    \/ \E p \in Pointers, s \in BOOLEAN : Tick /\ handleCanvasClick(p.x, p.y, s)
    \/ \E id \in LaserIds : Tick /\ handleLaserDoubleClick(id)
    \/ Tick /\ handleCleanAll
    \/ \E id \in LaserIds, e \in LaserDownEvents :
          Tick /\ handleLaserMouseDown(id, e.button, e.shiftKey, e.altKey, e.x)
    \/ \E f \in Fields, t \in EditTexts : Tick /\ handleLaserEdit(f, t)
    \/ Tick /\ handleCloseLaserEdit
    \/ \E p \in Pointers : Tick /\ handleMouseMove(p.x, p.y)
    \/ \E e \in MouseDownEvents : Tick /\ handleMouseDown(e.button, e.altKey, e.p.x, e.p.y)
    \/ \E b \in Buttons : Tick /\ handleMouseUp(b)

Spec == Init /\ [][Next]_vars

(***************************************************************************)
(* The render of one fired laser: the scene holds a laser at one of the    *)
(* positions below (reached by creation, drag or edit), the viewport one   *)
(* of the zooms; the gravity button is clicked between renders.  One of    *)
(* the lasers is being dragged (the primary button went down on it) and    *)
(* the pointer moves to a place inside the body.                           *)
(***************************************************************************)
PathStarts ==
    {[x |-> RatZero, y |-> RatZero, angle |-> 0, dragging |-> FALSE],
     [x |-> Rat(rs + 30, 1), y |-> RatZero, angle |-> 0, dragging |-> FALSE],
     [x |-> Rat(1300, 1), y |-> RatZero, angle |-> 0, dragging |-> FALSE],
     [x |-> Rat(0 - (rs + 30), 1), y |-> RatZero, angle |-> 0, dragging |-> TRUE],
     [x |-> Rat(0 - 15, 4), y |-> RatZero, angle |-> 0, dragging |-> FALSE],
     [x |-> Rat(rs + 30, 1), y |-> RatZero, angle |-> ShiftAngle, dragging |-> FALSE],
     [x |-> Rat(50 * rs, 1), y |-> RatZero, angle |-> ShiftAngle, dragging |-> FALSE]}
PathZooms == {minZoom, ZoomUnit, maxZoom}
PointerInside == [x |-> 380, y |-> 400]

InitPath ==
    /\ zoom \in PathZooms
    /\ gravityEnabled = FALSE
    /\ editingLaserId = NULL
    /\ tempInputValues = [x |-> EmptyText, y |-> EmptyText, angle |-> EmptyText]
    /\ nextId = 1
    /\ \E s \in PathStarts :
          /\ lasers = << Laser(0, s.x, s.y, s.angle) >>
          /\ isDragging = s.dragging
          /\ draggedLaserId = IF s.dragging THEN 0 ELSE NULL
    /\ rotatingLaserId = NULL
    /\ lastMouseX = NULL
    /\ panOffset = [x |-> 0, y |-> 0]
    /\ isPanning = FALSE
    /\ panStart = [x |-> 0, y |-> 0]
    /\ wasPanning = FALSE
    /\ ev = [type |-> "init"]
    /\ eventCount = 0
    /\ path = PathIdle
    /\ size = [width |-> Width, height |-> Height]
    /\ earlier = NoCall

NextPath ==
    \/ path.pc = "idle" /\ GravityToggleClick
          /\ UNCHANGED << eventCount, path, size, earlier >>
    \/ path.pc # "loop" /\ isDragging
          /\ handleMouseMove(PointerInside.x, PointerInside.y)
          /\ UNCHANGED << eventCount, path, size, earlier >>
    \/ \E i \in 1..Len(lasers) : calculateLightPathEnter(i)
    \/ calculateLightPathLoop

SpecPath == InitPath /\ [][NextPath]_vars


(***************************************************************************)
(* Repeated renders: two fired lasers on the x axis, one to the left of    *)
(* the body aimed at it and one to the right aimed away.  Between the      *)
(* renders the window is resized and the left laser is deleted; the        *)
(* renderer keeps one returned array to compare a later one with.          *)
(***************************************************************************)
WindowSizes == {[width |-> Width, height |-> Height], [width |-> 1000, height |-> 1000]}
CallZooms == {ZoomUnit, maxZoom}

\* handleResize: setSize({ width: window.innerWidth, height: window.innerHeight })
handleResize(newSize) ==
    /\ size' = newSize
    /\ ev' = [type |-> "resize"]
    /\ UNCHANGED << zoom, gravityEnabled, editingLaserId, tempInputValues, lasers, nextId,
                    isDragging, draggedLaserId, rotatingLaserId, lastMouseX, panOffset,
                    isPanning, panStart, wasPanning, eventCount, path, earlier >>

\* the array calculateLightPath returned is kept, with the arguments of the call
KeepReturned ==
    /\ path.pc = "done"
    /\ ~earlier.made
    /\ earlier' = [made |-> TRUE, args |-> path.args, points |-> path.points]
    /\ UNCHANGED << sceneVars, path, size >>

InitCalls ==
    /\ zoom \in CallZooms
    /\ gravityEnabled \in BOOLEAN
    /\ editingLaserId = NULL
    /\ tempInputValues = [x |-> EmptyText, y |-> EmptyText, angle |-> EmptyText]
    /\ lasers = << Laser(0, Rat(0 - (rs + 30), 1), RatZero, 0),
                   Laser(1, Rat(rs + 30, 1), RatZero, 0) >>
    /\ nextId = 2
    /\ isDragging = FALSE
    /\ draggedLaserId = NULL
    /\ rotatingLaserId = NULL
    /\ lastMouseX = NULL
    /\ panOffset = [x |-> 0, y |-> 0]
    /\ isPanning = FALSE
    /\ panStart = [x |-> 0, y |-> 0]
    /\ wasPanning = FALSE
    /\ ev = [type |-> "init"]
    /\ eventCount = 0
    /\ path = PathIdle
    /\ size = [width |-> Width, height |-> Height]
    /\ earlier = NoCall

NextCalls ==
    \/ \E s \in WindowSizes : path.pc # "loop" /\ handleResize(s)
    \/ path.pc # "loop" /\ handleLaserDoubleClick(0)
          /\ UNCHANGED << eventCount, path, size, earlier >>
    \/ \E i \in 1..Len(lasers) : calculateLightPathEnter(i)
    \/ calculateLightPathLoop
    \/ KeepReturned

SpecCalls == InitCalls /\ [][NextCalls]_vars

(***************************************************************************)
(* Claims about the scene, the viewport and the gestures (under Spec).     *)
(***************************************************************************)
Last(seq) == seq[Len(seq)]

\* the world position and the placement radius of the click the last event
\* delivered (zoom and pan are those of the click: a click changes neither)
ClickRelX == relativeX(ev.x)
ClickRelY == relativeY(ev.y)

\* C1: no two rays of the scene share an id, and an id handed out by a
\* create is the counter's value, which no earlier create was given: the
\* counter never decreases (not on delete, not on clear-all), every id of the
\* scene lies below it, and an id new to the scene is not below the counter
\* as it stood before the step.
IdsUniqueNeverReused ==
    [][/\ \A i, j \in 1..Len(lasers') : i # j => lasers'[i].id # lasers'[j].id
       /\ nextId' >= nextId
       /\ \A i \in 1..Len(lasers) : lasers[i].id < nextId
       /\ \A i \in 1..Len(lasers') :
             /\ lasers'[i].id < nextId'
             /\ lasers'[i].id \notin LaserIds => lasers'[i].id >= nextId]_vars

\* a create, then a delete or clear-all, then a create: the scene holds the
\* single ray of id 1
IdAfterDeletionReached ==
    /\ eventCount = 3
    /\ ev.type = "click"
    /\ Len(lasers) = 1
    /\ lasers[1].id = 1
    /\ nextId = 2

\* C2: every ray a create appends is stored at a world position whose
\* distance from the body center exceeds rs = BH_SIZE * 0.25.
CreatedOutsideBody ==
    [][Len(lasers') > Len(lasers) =>
          HypotGreater(Last(lasers').x, Last(lasers').y, Rat(rs, 1))]_vars

\* C3: a click whose world position lies within rs / zoom of the center
\* leaves the scene and the id counter as they are.
RefusedCreateChangesNothing ==
    [][(/\ ev'.type = "click"
        /\ ~HypotGreater(relativeX(ev'.x), relativeY(ev'.y), Rat(rs * ZoomUnit, zoom)))
       => UNCHANGED << lasers, nextId >>]_vars

\* a first ray exists and the second event is a click on the rim of the
\* placement radius, with no gesture or pan before it
RefusedCreateReached ==
    /\ eventCount = 2
    /\ ev.type = "click"
    /\ ~HypotGreater(ClickRelX, ClickRelY, Rat(rs * ZoomUnit, zoom))
    /\ Len(lasers) = 1
    /\ nextId = 1

\* C4: every ray of the scene has its angle in [0, 360).
AnglesNormalized ==
    \A i \in 1..Len(lasers) : lasers[i].angle >= 0 /\ lasers[i].angle < FullTurn

\* the angle field was committed with -450.5 and the edited ray points at
\* 90.5 degrees
AngleBeyondTurnCommitted ==
    /\ ev.type = "edit"
    /\ ev.field = "angle"
    /\ ev.value = TextNegative
    /\ \E i \in 1..Len(lasers) :
          lasers[i].id = editingLaserId /\ lasers[i].angle = 90500

\* C5: the zoom stays in [minZoom, maxZoom], and a wheel event sets it to
\* clamp(zoom - deltaY * 0.001, minZoom, maxZoom).
ZoomClamped ==
    [][/\ zoom >= minZoom /\ zoom <= maxZoom
       /\ zoom' >= minZoom /\ zoom' <= maxZoom
       /\ ev'.type = "wheel" =>
             zoom' = Min2(Max2(zoom - ev'.deltaY, minZoom), maxZoom)]_vars

\* the first event is a wheel step that asks for zoom 2.6 and gets 2.5
WheelClampedAtMax ==
    /\ eventCount = 1
    /\ ev.type = "wheel"
    /\ ZoomUnit - ev.deltaY > maxZoom
    /\ zoom = maxZoom

\* C7: at most one of dragging, rotating and panning is active.
AtMostOneGesture ==
    /\ ~(isDragging /\ rotatingLaserId # NULL)
    /\ ~(isDragging /\ isPanning)
    /\ ~(rotatingLaserId # NULL /\ isPanning)

\* C8: while an edit session is active no click creates a ray and no
\* pointer move changes a ray.
EditSessionSuppressesGestures ==
    [][(editingLaserId # NULL /\ ev'.type \in {"click", "move"}) => lasers' = lasers]_vars

\* C9: in an edit session, a text that is no number is staged in its field
\* and changes neither the scene nor the session.
InvalidEditOnlyStaged ==
    [][(ev'.type = "edit" /\ ~ev'.value.valid /\ editingLaserId # NULL) =>
          /\ lasers' = lasers
          /\ editingLaserId' = editingLaserId
          /\ tempInputValues' = [tempInputValues EXCEPT ![ev'.field] = ev'.value]]_vars

\* the x field of an open session on a ray of the scene holds a text that
\* is no number, typed by the last event
InvalidEditReached ==
    /\ ev.type = "edit"
    /\ ev.field = "x"
    /\ ~ev.value.valid
    /\ editingLaserId \in LaserIds
    /\ tempInputValues.x = ev.value

(***************************************************************************)
(* The edit dialog on a scene of one laser (created with shift at          *)
(* PointerOutside), under some zoom and pan: the dialog is opened, values  *)
(* are typed into its three inputs, it is closed and opened again.         *)
(***************************************************************************)
TextOne == NumText(FALSE, 1000, 2)
TextZeroAngle == NumText(FALSE, 0, 1)
TextEighth == NumText(TRUE, 125, 3)
TextHalfTurn == NumText(FALSE, 180000, 1)
TextQuarterDown == NumText(TRUE, 90040, 2)
TextThreeQuarter == NumText(FALSE, 270000, 1)
EditInputs ==
    {[field |-> "x", value |-> TextTwo], [field |-> "x", value |-> TextEighth],
     [field |-> "y", value |-> TextOne], [field |-> "y", value |-> TextJunk],
     [field |-> "angle", value |-> TextZeroAngle],
     [field |-> "angle", value |-> TextHalfTurn],
     [field |-> "angle", value |-> TextQuarterDown],
     [field |-> "angle", value |-> TextThreeQuarter]}
EditZooms == {ZoomUnit, maxZoom}
EditPans == {[x |-> 0, y |-> 0], [x |-> 40, y |-> 0 - 30]}

InitEdit ==
    /\ zoom \in EditZooms
    /\ gravityEnabled = FALSE
    /\ editingLaserId = NULL
    /\ tempInputValues = [x |-> EmptyText, y |-> EmptyText, angle |-> EmptyText]
    /\ lasers = << Laser(0, Rat(rs + 30, 1), RatZero, ShiftAngle) >>
    /\ nextId = 1
    /\ isDragging = FALSE
    /\ draggedLaserId = NULL
    /\ rotatingLaserId = NULL
    /\ lastMouseX = NULL
    /\ panOffset \in EditPans
    /\ isPanning = FALSE
    /\ panStart = [x |-> 0, y |-> 0]
    /\ wasPanning = FALSE
    /\ ev = [type |-> "init"]
    /\ eventCount = 0
    /\ path = PathIdle
    /\ size = [width |-> Width, height |-> Height]
    /\ earlier = NoCall

NextEdit ==
    \/ \E id \in LaserIds : Tick /\ handleLaserMouseDown(id, 2, TRUE, FALSE, PointerOutside.x)
    \/ \E i \in EditInputs : Tick /\ handleLaserEdit(i.field, i.value)
    \/ Tick /\ handleCloseLaserEdit

SpecEdit == InitEdit /\ [][NextEdit]_vars

(***************************************************************************)
(* Claims about calculateLightPath (under SpecPath).                       *)
(***************************************************************************)
\* C6: calculateLightPath terminates on every input and returns at most
\* maxSteps = 4000 points: every pass of the loop either leaves it (by
\* capture, by escape or with the budget used up) or raises step by one,
\* and neither step nor the number of points ever exceeds 4000.
PathTerminatesWithinBudget ==
    [][path'.pc # "idle" =>
          /\ path'.step <= maxSteps
          /\ BagCardinality(path'.points) <= maxSteps
          /\ path.pc = "loop" =>
                \/ path'.pc = "done" /\ path'.end \in {"capture", "escape", "budget"}
                \/ path'.pc = "loop" /\ path'.step = path.step + 1]_vars

\* the loop was left with the budget used up, 4000 points returned
BudgetExhausted ==
    /\ path.pc = "done"
    /\ path.end = "budget"
    /\ BagCardinality(path.points) = maxSteps

(***************************************************************************)
(* Claims about the edit dialog (under SpecEdit).                          *)
(***************************************************************************)
\* the texts a and b denote numbers at most tol thousandths apart
TextsWithin(a, b, tol) ==
    a.valid /\ b.valid /\ Abs(TextValue(a) - TextValue(b)) <= tol

\* the three inputs hold numbers, the angle in (-180, 180]
CommittedValues(t) ==
    /\ t.x.valid /\ t.y.valid /\ t.angle.valid
    /\ TextValue(t.angle) > 0 - HalfTurn
    /\ TextValue(t.angle) <= HalfTurn

\* C10: edit round trip.  When the dialog is opened again on the laser whose
\* committed values (x, y, angle), angle in (-180, 180], the inputs hold,
\* the staged values are x and y rounded to 2 decimals and angle rounded to
\* 1 decimal, for every zoom and pan; 2.00, 1.00, 0.0 come back as typed.
EditRoundTrip ==
    [][(/\ ev'.type = "laserDown"
        /\ editingLaserId' # NULL
        /\ CommittedValues(tempInputValues))
       => /\ TextsWithin(tempInputValues'.x, tempInputValues.x, 5)
          /\ TextsWithin(tempInputValues'.y, tempInputValues.y, 5)
          /\ TextsWithin(tempInputValues'.angle, tempInputValues.angle, 50)
          /\ tempInputValues'.x.fd = 2
          /\ tempInputValues'.y.fd = 2
          /\ tempInputValues'.angle.fd = 1
          /\ (tempInputValues = [x |-> TextTwo, y |-> TextOne, angle |-> TextZeroAngle]
                => tempInputValues' = tempInputValues)]_vars

\* 2.00, 1.00 and 0.0 were committed to a laser that stood elsewhere at
\* another angle, and the dialog was opened on it again
RoundTripReached ==
    /\ ev.type = "laserDown"
    /\ eventCount = 5
    /\ editingLaserId = 0
    /\ lasers[1].x = Rat(2 * rs, 1)
    /\ lasers[1].y = Rat(0 - rs, 1)
    /\ lasers[1].angle = 0
    /\ tempInputValues = [x |-> TextTwo, y |-> TextOne, angle |-> TextZeroAngle]

(***************************************************************************)
(* Claims about the returned path (under SpecPath).  They are stated for   *)
(* the calls whose state vector is followed exactly: radial rays, and the  *)
(* first pass of the loop of any ray.                                      *)
(***************************************************************************)
PathFollowed == path.pc # "idle" /\ (path.yState.exact \/ path.step = 0)
PathReturned == path.pc = "done" /\ PathFollowed
PointCount == BagCardinality(path.points)

\* C11: with gravityEnabled = false no call of calculateLightPath leaves the
\* loop through the capture test r <= effectiveRs * 1.001, whatever the origin
\* and the angle, a ray aimed at the center included.
NoCaptureWithoutGravity ==
    (PathReturned /\ ~path.args.gravityEnabled) => path.end # "capture"

\* the ray starts on an axis and is aimed at the center (n_r = -1)
AimedAtCenter(a) == IsRadialOnAxis(a) /\ RadialStart(a).p_r = 0 - 1

\* the ray starts on the x axis at 50 * rs from the center, aimed along y
FarTangential(a) ==
    /\ a.relY0.n = 0
    /\ RatEq(RatAbs(a.relX0), Rat(50 * a.bhSize, 4))
    /\ a.angleDeg \in AxisAngles
    /\ AxisCos(a.angleDeg) = 0

\* the start is at most rs = bhSize * 0.25 from the center
StartInsideBody(a) == ~HypotGreater(a.relX0, a.relY0, Rat(a.bhSize, 4))

\* the distance of a point of a radial ray from the center (width / 2, height / 2)
PointDistance(p, a) ==
    RatAdd(RatAbs(RatAdd(p.x, Rat(0 - a.width, 2))),
           RatAbs(RatAdd(p.y, Rat(0 - a.height, 2))))

\* the point pushed last by a ray aimed at the center: the nearest to it
NearestPoint ==
    CHOOSE p \in BagToSet(path.points) :
        \A q \in BagToSet(path.points) :
            ~RatLess(PointDistance(q, path.args), PointDistance(p, path.args))

\* C12: horizon capture.  With gravityEnabled = true, a ray aimed at the
\* center from a distance below 3 * rs returns, at every zoom, a sequence
\* that is not empty, has fewer than 4000 points and whose last point
\* carries a distToCenter of at most 1.001 times the capture threshold 1.001.
HorizonCapture ==
    (/\ PathReturned
     /\ path.args.gravityEnabled
     /\ AimedAtCenter(path.args)
     /\ RatLess(RadialStart(path.args).r, Rat(3 * path.args.bhSize, 4)))
    => /\ PointCount > 0
       /\ PointCount < maxSteps
       /\ ~RatLess(Rat(1001 * 1001, 1000000), NearestPoint.distToCenter)

\* C13 as stated: a ray stored inside the body returns a trivial (at most
\* one point) or empty sequence for either setting of gravityEnabled.
InsideBodyPathTrivial ==
    (PathReturned /\ StartInsideBody(path.args)) => PointCount <= 1

\* C13: a drag stores the ray where the pointer is, inside the body too (no
\* placement test is run again); calculateLightPath for a ray stored inside
\* the body returns the empty sequence when gravityEnabled is true, and at
\* least the starting point when it is false and the start is neither the
\* center nor beyond the escape bounds.
InsideBodyPathEmptyUnderGravity ==
    [][/\ (ev'.type = "move" /\ isDragging /\ FindIndex(draggedLaserId) # 0)
            => LET l == lasers'[FindIndex(draggedLaserId)]
               IN  l.x = relativeX(ev'.x) /\ l.y = relativeY(ev'.y)
       /\ (PathReturned' /\ StartInsideBody(path'.args) /\ path'.args.gravityEnabled)
            => (path'.end = "capture" /\ BagCardinality(path'.points) = 0)
       /\ (/\ PathReturned' /\ StartInsideBody(path'.args) /\ ~path'.args.gravityEnabled
           /\ ~StartCaptured(path'.args) /\ ~StartEscaped(path'.args))
            => BagCardinality(path'.points) >= 1]_vars

\* the laser was dragged to a place inside the body and, gravity on, its path
\* came back empty
DraggedInsideBodyRendered ==
    /\ PathReturned
    /\ ev.type = "move"
    /\ path.args.gravityEnabled
    /\ path.args.relX0 = relativeX(PointerInside.x)
    /\ lasers[1].x = path.args.relX0
    /\ StartInsideBody(path.args)
    /\ zoom = ZoomUnit
    /\ PointCount = 0

\* C14: every point returned carries its own distance from the center
\* divided by rs (distToCenter = r / rs), whatever the zoom.
PointsCarryOwnDistance ==
    (path.pc # "idle" /\ path.yState.exact)
    => \A p \in BagToSet(path.points) :
          RatEq(p.distToCenter,
                Rat(PointDistance(p, path.args).n * 4,
                    PointDistance(p, path.args).d * path.args.bhSize))

OnRay(p, a) ==
    /\ ~IsNaN(p.x)
    /\ ~IsNaN(p.y)
    /\ LET dx == RatAdd(p.x, RatNeg(RatAdd(a.relX0, Rat(a.width, 2))))
           dy == RatAdd(p.y, RatNeg(RatAdd(a.relY0, Rat(a.height, 2))))
           c == AxisCos(a.angleDeg)
           s == AxisSin(a.angleDeg)
       IN  /\ RatEq(RatTimes(dx, s), RatTimes(dy, c))
           /\ ~RatLess(RatAdd(RatTimes(dx, c), RatTimes(dy, s)), RatZero)

\* C21: with gravityEnabled = false every point returned lies on the
\* Euclidean half line from the origin in the direction angle.
StraightWithoutGravity ==
    (path.pc # "idle" /\ path.yState.exact /\ ~path.args.gravityEnabled)
    => \A p \in BagToSet(path.points) : OnRay(p, path.args)

\* the point was pushed for a state vector that passed the capture test and
\* the escape test: r > effectiveRs * 1.001, r <= maxDistance and xPix, yPix
\* within [-width / zoom, width / zoom], [-height / zoom, height / zoom]
PassedTests(p, a) ==
    /\ ~IsNaN(p.x)
    /\ ~IsNaN(p.y)
    /\ RatLess(HorizonRadius(a.bhSize, a.gravityEnabled), PointDistance(p, a))
    /\ ~RatLess(Rat(Max2(a.width, a.height) * 1500, a.zoom), PointDistance(p, a))
    /\ ~RatLess(p.x, Rat(0 - a.width * ZoomUnit, a.zoom))
    /\ ~RatLess(Rat(a.width * ZoomUnit, a.zoom), p.x)
    /\ ~RatLess(p.y, Rat(0 - a.height * ZoomUnit, a.zoom))
    /\ ~RatLess(Rat(a.height * ZoomUnit, a.zoom), p.y)

\* C30: the loop tests capture, then escape, then pushes the point, then
\* integrates, so that every point of the sequence has r > effectiveRs *
\* 1.001, a distance from the center of at most max(width, height) * 1.5 /
\* zoom and a screen position within the margin scaled by 1 / zoom.
ReturnedPointsPassedTests ==
    (path.pc # "idle" /\ path.yState.exact)
    => \A p \in BagToSet(path.points) : PassedTests(p, path.args)

(***************************************************************************)
(* Claims about repeated calls (under SpecCalls).                          *)
(***************************************************************************)
\* origin, angle, body radius, zoom and gravity of two calls agree
SameTuple(a, b) ==
    /\ a.relX0 = b.relX0 /\ a.relY0 = b.relY0
    /\ a.angleDeg = b.angleDeg
    /\ a.bhSize = b.bhSize
    /\ a.zoom = b.zoom
    /\ a.gravityEnabled = b.gravityEnabled

NoRayPlaced == nextId' = nextId /\ Len(lasers') = Len(lasers)

WheelStep == \E d \in WheelDeltas : Tick /\ handleWheel(d)

\* C17: a wheel event is handled in every interaction state and changes only
\* the zoom: the drag, rotate and pan flags, the suppress-next-click flag,
\* the edit session, the pan offset, the lasers and the id counter are left
\* as they were
WheelChangesOnlyZoom ==
    [][/\ eventCount < MaxEvents => ENABLED WheelStep
       /\ ev'.type = "wheel" =>
             /\ zoom' = Max2(minZoom, Min2(maxZoom, zoom - ev'.deltaY))
             /\ UNCHANGED << gravityEnabled, editingLaserId, tempInputValues, lasers,
                             nextId, isDragging, draggedLaserId, rotatingLaserId,
                             lastMouseX, panOffset, isPanning, panStart,
                             wasPanning >>]_vars

\* the wheel turned while a laser is being edited and dragged and the
\* playground is being panned: the zoom changed
WheelDuringGestures ==
    /\ ev.type = "wheel"
    /\ zoom # ZoomUnit
    /\ editingLaserId # NULL
    /\ isDragging
    /\ isPanning


(***************************************************************************)
(* Claims about the viewport transform, under Spec.                        *)
(***************************************************************************)
ScreenX(laser) == worldToScreenX(laser.x, zoom', panOffset'.x)
ScreenY(laser) == worldToScreenY(laser.y, zoom', panOffset'.y)

\* the laser the step moved or added, if it did
Touched(i) == i > Len(lasers) \/ lasers'[i] # lasers[i]

\* C18: under every viewport, taking a stored position to the screen and
\* back gives the position again; the laser a click adds is rendered at the
\* click point, and the laser a drag moves is rendered at the pointer
ViewportInverse ==
    [][/\ \A i \in 1..Len(lasers') :
             /\ RatEq(screenToWorldX(ScreenX(lasers'[i]), zoom', panOffset'.x),
                      lasers'[i].x)
             /\ RatEq(screenToWorldY(ScreenY(lasers'[i]), zoom', panOffset'.y),
                      lasers'[i].y)
       /\ (ev'.type = "click" \/ (ev'.type = "move" /\ rotatingLaserId = NULL)) =>
             \A i \in 1..Len(lasers') : Touched(i) =>
                /\ RatEq(ScreenX(lasers'[i]), Rat(ev'.x, 1))
                /\ RatEq(ScreenY(lasers'[i]), Rat(ev'.y, 1))]_vars

\* the playground was panned from PointerOutside to PointerOnRim and a
\* click at PointerOutside then placed a laser (no click in the unpanned
\* viewport gives this position): the laser is rendered under the click
PlacedUnderClick ==
    /\ ev.type = "click"
    /\ ev.x = PointerOutside.x /\ ev.y = PointerOutside.y
    /\ panOffset = [x |-> PointerOnRim.x - PointerOutside.x,
                    y |-> PointerOnRim.y - PointerOutside.y]
    /\ Len(lasers) = 1
    /\ lasers[1].x = relativeX(ev.x)
    /\ lasers[1].y = relativeY(ev.y)
    /\ worldToScreenX(lasers[1].x, zoom, panOffset.x) = Rat(ev.x, 1)
    /\ worldToScreenY(lasers[1].y, zoom, panOffset.y) = Rat(ev.y, 1)


(***************************************************************************)
(* normalizeAngle as the rotation gesture applies it: one laser is being   *)
(* rotated (right button held on it), and the pointer moves between        *)
(* positions across the window, so that angle + deltaX * 0.5 runs from     *)
(* below -360 to above 720 degrees.                                        *)
(***************************************************************************)
RotateXs == {0, 1, Rect.left, Rect.left + BH_CENTER.x + 1, Width}
RotateStarts == {0, ShiftAngle}
MaxTurns == 3

InitAngle ==
    /\ zoom = ZoomUnit
    /\ gravityEnabled = FALSE
    /\ editingLaserId = NULL
    /\ tempInputValues = [x |-> EmptyText, y |-> EmptyText, angle |-> EmptyText]
    /\ \E a \in RotateStarts : lasers = << Laser(0, Rat(rs + 30, 1), RatZero, a) >>
    /\ nextId = 1
    /\ isDragging = FALSE
    /\ draggedLaserId = NULL
    /\ rotatingLaserId = 0
    /\ panOffset = [x |-> 0, y |-> 0]
    /\ isPanning = FALSE
    /\ panStart = [x |-> 0, y |-> 0]
    /\ wasPanning = FALSE
    /\ \E x \in RotateXs :
          /\ lastMouseX = x
          /\ ev = [type |-> "laserDown", id |-> 0, button |-> 2, shiftKey |-> FALSE,
                   altKey |-> FALSE, x |-> x]
    /\ eventCount = 0
    /\ path = PathIdle
    /\ size = [width |-> Width, height |-> Height]
    /\ earlier = NoCall

NextAngle == \E x \in RotateXs : Tick /\ handleMouseMove(x, PointerOutside.y)

SpecAngle == InitAngle /\ [][NextAngle]_vars

(***************************************************************************)
(* Claims about normalizeAngle (under SpecAngle).                          *)
(***************************************************************************)
\* the angle handed to normalizeAngle by a move of the rotation gesture
RotationInput(i) == lasers[i].angle + (ev'.x - lastMouseX) * RotateGain

\* C19: normalizeAngle(a) lies in [0, 360) and differs from a by a whole
\* number of turns, for negative, zero and large a alike, and it gives the
\* same result for a + 360 k, k an integer
NormalizeAngleRangePeriodic ==
    [][\A i \in 1..Len(lasers) :
          (lasers[i].id = rotatingLaserId /\ lastMouseX # NULL) =>
             /\ lasers'[i].angle >= 0
             /\ lasers'[i].angle < FullTurn
             /\ (RotationInput(i) - lasers'[i].angle) % FullTurn = 0
             /\ \A k \in (0 - MaxTurns)..MaxTurns :
                   normalizeAngle(RotationInput(i) + k * FullTurn) = lasers'[i].angle]_vars

\* the pointer went from the right edge of the window to the left one while
\* rotating a laser at 0 degrees: -400 degrees became 320
RotatedBelowMinusTurn ==
    /\ eventCount = 1
    /\ ev.type = "move"
    /\ ev.x = 0
    /\ lastMouseX = 0
    /\ rotatingLaserId = 0
    /\ lasers[1].angle = 320000


(***************************************************************************)
(* Claims about the operations on the scene, under Spec.                   *)
(***************************************************************************)
\* the scene variables no operation on the lasers touches
ViewportKept == UNCHANGED << zoom, panOffset, gravityEnabled >>
GesturesKept ==
    UNCHANGED << isDragging, draggedLaserId, rotatingLaserId, lastMouseX,
                 isPanning, panStart, wasPanning, editingLaserId, tempInputValues >>

\* C22: a click on the playground that is not swallowed (no drag or pan in
\* progress, suppress-next-click flag clear) at a point outside the body
\* appends one laser with id = nextId, the world position of the click,
\* fired = true and angle 90 with Shift held, 0 without; nextId grows by
\* one; the lasers already there, the viewport and the gesture state stay
AcceptedCreate ==
    [][(/\ ev'.type = "click"
        /\ ~wasPanning /\ ~isDragging /\ ~isPanning
        /\ PlacementAllowed(relativeX(ev'.x), relativeY(ev'.y)))
       => /\ Len(lasers') = Len(lasers) + 1
          /\ SubSeq(lasers', 1, Len(lasers)) = lasers
          /\ Last(lasers').id = nextId
          /\ Last(lasers').x = relativeX(ev'.x)
          /\ Last(lasers').y = relativeY(ev'.y)
          /\ Last(lasers').fired
          /\ Last(lasers').angle = (IF ev'.shiftKey THEN ShiftAngle ELSE 0)
          /\ nextId' = nextId + 1
          /\ ViewportKept
          /\ GesturesKept]_vars

\* a click placed a laser, the wheel changed the zoom (the laser is now
\* drawn elsewhere), and a click with Shift held at the same point of the
\* playground placed a second one
SecondCreateWithShift ==
    /\ eventCount = 3
    /\ ev.type = "click"
    /\ ev.shiftKey
    /\ zoom # ZoomUnit
    /\ Len(lasers) = 2
    /\ lasers[1].id = 0
    /\ worldToScreenX(lasers[1].x, zoom, panOffset.x) # Rat(ev.x, 1)
    /\ lasers[2].id = 1
    /\ lasers[2].x = relativeX(ev.x)
    /\ lasers[2].angle = ShiftAngle
    /\ lasers[2].fired
    /\ nextId = 2


\* no rotation takes the move (handleMouseMove looks at the rotation first)
NotRotating == rotatingLaserId = NULL \/ lastMouseX = NULL

\* C23: the primary button pressed on a laser starts its drag; a move of the
\* drag sets that laser's x and y to the world position of the pointer under
\* the zoom and pan in effect and changes no other field, no other laser,
\* not the order, the zoom or the pan; the primary button released ends the
\* drag and leaves the lasers as they are
DragMovesOnlyPosition ==
    [][/\ (ev'.type = "laserDown" /\ ev'.button = 0)
             => /\ isDragging' /\ draggedLaserId' = ev'.id
                /\ lasers' = lasers /\ nextId' = nextId /\ ViewportKept
       /\ (ev'.type = "move" /\ isDragging /\ draggedLaserId # NULL /\ NotRotating)
             => /\ Len(lasers') = Len(lasers)
                /\ \A i \in 1..Len(lasers) :
                      lasers'[i] = IF lasers[i].id = draggedLaserId
                                   THEN [lasers[i] EXCEPT !.x = relativeX(ev'.x),
                                                          !.y = relativeY(ev'.y)]
                                   ELSE lasers[i]
                /\ isDragging' /\ draggedLaserId' = draggedLaserId
                /\ nextId' = nextId /\ ViewportKept
       /\ (ev'.type = "up" /\ ev'.button = 0 /\ isDragging)
             => /\ ~isDragging' /\ draggedLaserId' = NULL
                /\ lasers' = lasers /\ nextId' = nextId /\ ViewportKept]_vars

\* a laser placed with Shift held was dragged onto the rim of the body and
\* released there
DraggedAndReleased ==
    /\ eventCount = 4
    /\ ev.type = "up"
    /\ ev.button = 0
    /\ ~isDragging
    /\ draggedLaserId = NULL
    /\ Len(lasers) = 1
    /\ lasers[1].x = relativeX(PointerOnRim.x)
    /\ lasers[1].y = relativeY(PointerOnRim.y)
    /\ lasers[1].angle = ShiftAngle


\* the angle of the rotated laser with the pointer's share taken off: what
\* the moves of one rotation leave as it is
AngleLessPointer(angle, x) == normalizeAngle(angle - x * RotateGain)

\* C24: the secondary button pressed on a laser (no Shift) starts its
\* rotation at the pointer's x; a move of the rotation sets that laser's
\* angle to normalizeAngle(angle + 0.5 * (x - previous x)) and changes no
\* other field and no other laser; angle - 0.5 * x is the same, modulo 360,
\* before and after every such move, so that the angle after any moves is
\* normalizeAngle(angle0 + 0.5 * (x1 - x0)) whatever the positions between
RotateTelescopes ==
    [][/\ (ev'.type = "laserDown" /\ ev'.button = 2 /\ ~ev'.shiftKey)
             => /\ rotatingLaserId' = ev'.id /\ lastMouseX' = ev'.x
                /\ lasers' = lasers /\ nextId' = nextId /\ ViewportKept
       /\ (ev'.type = "move" /\ ~NotRotating)
             => /\ Len(lasers') = Len(lasers)
                /\ \A i \in 1..Len(lasers) :
                      IF lasers[i].id = rotatingLaserId
                      THEN /\ lasers'[i] =
                                [lasers[i] EXCEPT !.angle =
                                    normalizeAngle(@ + (ev'.x - lastMouseX) * RotateGain)]
                           /\ AngleLessPointer(lasers'[i].angle, lastMouseX')
                                 = AngleLessPointer(lasers[i].angle, lastMouseX)
                      ELSE lasers'[i] = lasers[i]
                /\ lastMouseX' = ev'.x /\ rotatingLaserId' = rotatingLaserId
                /\ nextId' = nextId /\ ViewportKept]_vars

\* the rotation of a laser placed at 0 degrees has its pointer 180 px left
\* of where the button went down, after one or two moves: the laser points
\* at 270 degrees
RotatedLeftPastZero ==
    /\ eventCount = 4
    /\ ev.type = "move"
    /\ ev.x = PointerOnRim.x
    /\ lastMouseX = PointerOnRim.x
    /\ rotatingLaserId = 0
    /\ Len(lasers) = 1
    /\ lasers[1].id = 0
    /\ lasers[1].angle = 270000


\* a move reaches the pan branch of handleMouseMove: panning, and neither a
\* rotation nor a drag takes the move
PanTakesMove == isPanning /\ NotRotating /\ ~(isDragging /\ draggedLaserId # NULL)

\* C25: the button-down that starts a pan keeps the pointer's position less
\* the pan offset; every move of the pan sets the pan offset to the pointer
\* less that, i.e. to the offset at button-down plus the pointer's way since,
\* whatever the positions between; no step of a pan changes the lasers, the
\* zoom or nextId
PanFollowsPointer ==
    [][/\ (ev'.type = "down" /\ (ev'.button = 1 \/ (ev'.button = 0 /\ ev'.altKey)))
             => /\ isPanning'
                /\ panOffset' = panOffset
                /\ panStart'.x + panOffset.x = ev'.x
                /\ panStart'.y + panOffset.y = ev'.y
                /\ lasers' = lasers /\ nextId' = nextId /\ zoom' = zoom
       /\ (ev'.type = "move" /\ PanTakesMove)
             => /\ isPanning'
                /\ panStart' = panStart
                /\ panOffset'.x = ev'.x - panStart.x
                /\ panOffset'.y = ev'.y - panStart.y
                /\ lasers' = lasers /\ nextId' = nextId /\ zoom' = zoom
       /\ (ev'.type = "up" /\ isPanning)
             => /\ panOffset' = panOffset
                /\ lasers' = lasers /\ nextId' = nextId /\ zoom' = zoom]_vars

\* a second pan over the same way as a first one: the offsets add up
SecondPanAddsUp ==
    /\ eventCount = 5
    /\ ev.type = "move"
    /\ isPanning
    /\ ~isDragging
    /\ rotatingLaserId = NULL
    /\ panOffset = [x |-> 2 * (PointerOnRim.x - PointerOutside.x),
                    y |-> 2 * (PointerOnRim.y - PointerOutside.y)]


\* the laser after `field` was given the number the text holds (thousandths)
WithField(laser, field, thousandths) ==
    IF field = "x" THEN [laser EXCEPT !.x = Rat(thousandths * rs, 1000)]
    ELSE IF field = "y" THEN [laser EXCEPT !.y = Rat((0 - thousandths) * rs, 1000)]
    ELSE [laser EXCEPT !.angle = normalizeAngle(0 - thousandths)]

\* C26: while a laser is edited, the edit of a field with a text that holds
\* a number is committed at once and changes that field of the edited laser
\* only: x becomes value * rs, y becomes -value * rs, angle becomes
\* normalizeAngle(-value), whatever the zoom and the pan; the laser's other
\* fields and the other lasers stay
EditCommitsOneField ==
    [][(ev'.type = "edit" /\ editingLaserId # NULL /\ ev'.value.valid)
       => /\ Len(lasers') = Len(lasers)
          /\ \A i \in 1..Len(lasers) :
                lasers'[i] = IF lasers[i].id = editingLaserId
                             THEN WithField(lasers[i], ev'.field, TextValue(ev'.value))
                             ELSE lasers[i]
          /\ tempInputValues' = [tempInputValues EXCEPT ![ev'.field] = ev'.value]
          /\ editingLaserId' = editingLaserId
          /\ nextId' = nextId
          /\ ViewportKept]_vars

\* y = -450.5 was committed to one of two lasers in a zoomed viewport
EditedOneOfTwo ==
    /\ ev.type = "edit"
    /\ ev.field = "y"
    /\ ev.value = TextNegative
    /\ zoom # ZoomUnit
    /\ Len(lasers) = 2
    /\ \E i \in 1..2 :
          /\ lasers[i].id = editingLaserId
          /\ lasers[i].y = Rat(450500 * rs, 1000)
          /\ lasers[3 - i].y = RatZero


(***************************************************************************)
(* The edit dialog opened and closed on a scene of two lasers.  The second *)
(* laser points at 179.96 degrees, as it does after -179.96 was typed into *)
(* the dialog's angle field.                                               *)
(***************************************************************************)
InitSession ==
    /\ zoom \in EditZooms
    /\ gravityEnabled = FALSE
    /\ editingLaserId = NULL
    /\ tempInputValues = [x |-> EmptyText, y |-> EmptyText, angle |-> EmptyText]
    /\ lasers = << Laser(0, Rat(rs + 30, 1), RatZero, ShiftAngle),
                   Laser(1, Rat(0 - (rs + 50), 1), Rat(50, 1), 179960) >>
    /\ nextId = 2
    /\ isDragging = FALSE
    /\ draggedLaserId = NULL
    /\ rotatingLaserId = NULL
    /\ lastMouseX = NULL
    /\ panOffset \in EditPans
    /\ isPanning = FALSE
    /\ panStart = [x |-> 0, y |-> 0]
    /\ wasPanning = FALSE
    /\ ev = [type |-> "init"]
    /\ eventCount = 0
    /\ path = PathIdle
    /\ size = [width |-> Width, height |-> Height]
    /\ earlier = NoCall

SpecSession == InitSession /\ [][NextEdit]_vars

(***************************************************************************)
(* Claims about the edit session (under SpecSession).                      *)
(***************************************************************************)
\* -screenAngle brought into (-180, 180]
Normalize180(a) ==
    IF normalizeAngle(a) > HalfTurn THEN normalizeAngle(a) - FullTurn ELSE normalizeAngle(a)

\* the text t holds the number q rounded to fd decimals
HoldsRounded(t, q, fd) ==
    /\ t.valid
    /\ t.fd = fd
    /\ 2 * Pow10(fd) * Abs(TextValue(t) * q.d - 1000 * q.n) <= 1000 * q.d

\* the dialog opened on the laser l: the lasers are as they were, no rotation
\* was started, l is the target and the inputs hold l's display values
OpenedOn(l) ==
    /\ lasers' = lasers
    /\ nextId' = nextId
    /\ rotatingLaserId' = rotatingLaserId
    /\ lastMouseX' = lastMouseX
    /\ isDragging' = isDragging
    /\ editingLaserId' = l.id
    /\ HoldsRounded(tempInputValues'.x, Rat(l.x.n, l.x.d * rs), 2)
    /\ HoldsRounded(tempInputValues'.y, Rat(0 - l.y.n, l.y.d * rs), 2)
    /\ HoldsRounded(tempInputValues'.angle, Rat(Normalize180(0 - l.angle), 1000), 1)

\* the dialog closed: no session is left, the lasers are as they were
Closed ==
    /\ editingLaserId' = NULL
    /\ lasers' = lasers
    /\ nextId' = nextId

OpensOn(i) ==
    /\ ev'.type = "laserDown" /\ ev'.button = 2 /\ ev'.shiftKey
    /\ lasers[i].id = ev'.id

\* C27 as stated: opening the dialog leaves the lasers as they are and
\* stages worldX / rs, -worldY / rs and the display angle, which lies in
\* (-180, 180]; closing it leaves the lasers as they are.
SessionStagesHalfOpenAngle ==
    [][/\ \A i \in 1..Len(lasers) : OpensOn(i) =>
             /\ OpenedOn(lasers[i])
             /\ TextValue(tempInputValues'.angle) > 0 - HalfTurn
             /\ TextValue(tempInputValues'.angle) <= HalfTurn
       /\ ev'.type = "closeEdit" => Closed]_vars

\* C27: opening the dialog on a laser leaves the lasers as they are, starts
\* no rotation, makes that laser the one target (whatever laser was edited
\* before) and stages worldX / rs and -worldY / rs rounded to 2 decimals
\* and the display angle normalize180(-angle) rounded to 1 decimal, which
\* lies in [-180.0, 180.0]; closing it leaves the lasers as they are.
SessionKeepsScene ==
    [][/\ \A i \in 1..Len(lasers) : OpensOn(i) =>
             /\ OpenedOn(lasers[i])
             /\ TextValue(tempInputValues'.angle) >= 0 - HalfTurn
             /\ TextValue(tempInputValues'.angle) <= HalfTurn
       /\ ev'.type = "closeEdit" => Closed]_vars

\* the dialog, open on the first laser after an edit of its x, was opened
\* on the second one: the inputs hold -1.33, -0.33 and -180.0
ReopenedOnOther ==
    /\ eventCount = 3
    /\ ev.type = "laserDown"
    /\ ev.id = 1
    /\ editingLaserId = 1
    /\ lasers[1].x = Rat(2 * rs, 1)
    /\ lasers[2].angle = 179960
    /\ tempInputValues = [x |-> NumText(TRUE, 1330, 2), y |-> NumText(TRUE, 330, 2),
                          angle |-> NumText(TRUE, 180000, 1)]


(***************************************************************************)
(* Deleting and clearing in a scene of three lasers (ids 0, 2 and 5: the   *)
(* lasers 1, 3 and 4 were deleted before), at several zooms and pans and   *)
(* either gravity setting.                                                 *)
(***************************************************************************)
InitScene ==
    /\ zoom \in EditZooms
    /\ gravityEnabled \in BOOLEAN
    /\ editingLaserId = NULL
    /\ tempInputValues = [x |-> EmptyText, y |-> EmptyText, angle |-> EmptyText]
    /\ lasers = << Laser(0, Rat(rs + 30, 1), RatZero, ShiftAngle),
                   Laser(2, Rat(0 - (rs + 50), 1), Rat(50, 1), 0),
                   Laser(5, RatZero, Rat(0 - 2 * rs, 1), 270500) >>
    /\ nextId = 6
    /\ isDragging = FALSE
    /\ draggedLaserId = NULL
    /\ rotatingLaserId = NULL
    /\ lastMouseX = NULL
    /\ panOffset \in EditPans
    /\ isPanning = FALSE
    /\ panStart = [x |-> 0, y |-> 0]
    /\ wasPanning = FALSE
    /\ ev = [type |-> "init"]
    /\ eventCount = 0
    /\ path = PathIdle
    /\ size = [width |-> Width, height |-> Height]
    /\ earlier = NoCall

NextScene ==
    \/ \E id \in LaserIds : Tick /\ handleLaserDoubleClick(id)
    \/ Tick /\ handleCleanAll
    \/ \E p \in Pointers, s \in BOOLEAN : Tick /\ handleCanvasClick(p.x, p.y, s)
    \/ Tick /\ GravityToggleClick

SpecScene == InitScene /\ [][NextScene]_vars

(***************************************************************************)
(* Claims about delete and clear-all (under SpecScene).                    *)
(***************************************************************************)
\* the positions of the lasers that do not carry id, in order
RECURSIVE OthersAt(_, _, _)
OthersAt(s, id, i) ==
    IF i > Len(s) THEN << >>
    ELSE IF s[i].id = id THEN OthersAt(s, id, i + 1)
         ELSE << i >> \o OthersAt(s, id, i + 1)

\* C28: a double click on a laser removes the laser with that id and no
\* other: the lasers left are the other ones, each with its fields and in
\* the order they had; nextId, the zoom and the pan offset stay
DeleteRemovesOne ==
    [][ev'.type = "dblclick" =>
          LET kept == OthersAt(lasers, ev'.id, 1)
          IN  /\ Len(kept) = Len(lasers) - 1
              /\ Len(lasers') = Len(kept)
              /\ \A k \in 1..Len(kept) : lasers'[k] = lasers[kept[k]]
              /\ \A k \in 1..Len(lasers') : lasers'[k].id # ev'.id
              /\ nextId' = nextId
              /\ ViewportKept]_vars

\* the second of three lasers was deleted: the first and the third are left,
\* in that order
MiddleDeleted ==
    /\ eventCount = 1
    /\ ev.type = "dblclick"
    /\ ev.id = 2
    /\ Len(lasers) = 2
    /\ lasers[1] = Laser(0, Rat(rs + 30, 1), RatZero, ShiftAngle)
    /\ lasers[2] = Laser(5, RatZero, Rat(0 - 2 * rs, 1), 270500)
    /\ nextId = 6

\* C29: clear-all leaves no laser, whatever the scene held, and nothing
\* else changes: zoom, pan offset, gravity setting and nextId stay
ClearAllOnlyEmpties ==
    [][ev'.type = "cleanAll" =>
          /\ lasers' = << >>
          /\ nextId' = nextId
          /\ ViewportKept
          /\ GesturesKept]_vars

\* a laser was added to the scene and the scene was cleared, in a panned
\* and zoomed viewport
ClearedAfterCreate ==
    /\ eventCount = 3
    /\ ev.type = "cleanAll"
    /\ lasers = << >>
    /\ nextId = 7
    /\ zoom # ZoomUnit
    /\ panOffset # [x |-> 0, y |-> 0]

(***************************************************************************)
(* Claims about the whole controller, under Spec.                          *)
(***************************************************************************)
\* C31: whenever the edit dialog's session is active (editingLaserId is not
\* null) the id it holds is the id of a laser of the scene, after a double
\* click on the edited laser and after clear-all too.
EditTargetInScene == editingLaserId # NULL => editingLaserId \in LaserIds

\* C32: every laser a click creates has a path that is not empty when it is
\* rendered at the zoom and gravity setting of its creation: the first pass
\* of calculateLightPath's loop meets neither the capture test nor the
\* escape test.
CreatedRayHasPath ==
    [][Len(lasers') > Len(lasers) =>
          LET a == PathArgs(Last(lasers'))
          IN  /\ ~Captured(StartState(a), a)
              /\ ~Escaped(StartState(a), a)]_vars

\* no gesture is in progress
Idle == ~isDragging /\ ~isPanning /\ rotatingLaserId = NULL

\* the click the browser dispatches for the press and release of the
\* primary button follows the primary button's mouseup at once; the middle
\* button's release dispatches auxclick, which has no handler
OwnClickOfRelease == ev.type = "up" /\ ev.button = 0

\* C33: the flag wasPanning swallows only the click of the pan's own
\* button-up: a separate click of the primary button on the playground,
\* outside the body and with no gesture in progress, creates a laser,
\* whichever button did the pan.
SeparateClickCreates ==
    [][(/\ ev'.type = "click"
        /\ ~OwnClickOfRelease
        /\ Idle
        /\ PlacementAllowed(relativeX(ev'.x), relativeY(ev'.y)))
       => Len(lasers') = Len(lasers) + 1]_vars

SceneAscending(s) == \A i, j \in 1..Len(s) : i < j => s[i].id < s[j].id
IdsOf(s) == [i \in 1..Len(s) |-> s[i].id]

\* C34: the scene is strictly ascending by id after every step: a create
\* appends, behind the lasers already there, a laser whose id is above all
\* of theirs; a move (drag, rotation) and an edit keep the sequence of ids;
\* a double click takes one id out and keeps the others in their order.
SceneOrderedById ==
    [][/\ SceneAscending(lasers')
       /\ Len(lasers') > Len(lasers) =>
             /\ SubSeq(lasers', 1, Len(lasers)) = lasers
             /\ Last(lasers').id = nextId
             /\ \A i \in 1..Len(lasers) : lasers[i].id < nextId
       /\ ev'.type \in {"move", "edit"} => IdsOf(lasers') = IdsOf(lasers)
       /\ ev'.type = "dblclick" =>
             {lasers'[i].id : i \in 1..Len(lasers')} = LaserIds \ {ev'.id}]_vars

\* a laser was created and deleted, then two more were created (at two
\* zooms, so that the second click is not over the first laser): the scene
\* holds the ids 1 and 2 in this order
CreatedBehindAfterDelete ==
    /\ eventCount = 5
    /\ ev.type = "click"
    /\ nextId = 3
    /\ IdsOf(lasers) = << 1, 2 >>
    /\ lasers[1].x # lasers[2].x

\* the state but for the record of the event
HandlerState ==
    << zoom, gravityEnabled, editingLaserId, tempInputValues, lasers, nextId,
       isDragging, draggedLaserId, rotatingLaserId, lastMouseX, panOffset,
       isPanning, panStart, wasPanning >>

\* C35: a button pressed on a laser never starts a pan: Alt + primary button
\* on a laser starts the drag of that laser, the middle button on a laser
\* changes nothing, and a pan starts only with the playground's own
\* button-down (middle button, or Alt + primary button), which a press on a
\* laser does not reach.
LaserDownNeverPans ==
    [][/\ ev'.type = "laserDown" =>
             /\ UNCHANGED << isPanning, panStart, panOffset >>
             /\ ev'.button = 0 => isDragging' /\ draggedLaserId' = ev'.id
             /\ ev'.button = 1 => UNCHANGED HandlerState
       /\ (isPanning' /\ ~isPanning) =>
             /\ ev'.type = "down"
             /\ ev'.button = 1 \/ (ev'.button = 0 /\ ev'.altKey)]_vars

\* the playground was panned and the pan ended; then Alt + primary button
\* went down on a laser: the laser is dragged and no pan is in progress
AltDownOnLaserDrags ==
    /\ eventCount = 5
    /\ ev.type = "laserDown"
    /\ ev.button = 0
    /\ ev.altKey
    /\ ev.id \in LaserIds
    /\ isDragging
    /\ draggedLaserId = ev.id
    /\ ~isPanning
    /\ panOffset # [x |-> 0, y |-> 0]

\* laser b is laser a but for its angle / but for its position
SameButAngle(a, b) == b = [a EXCEPT !.angle = b.angle]
SameButPosition(a, b) == b = [a EXCEPT !.x = b.x, !.y = b.y]

\* C36: a pointer move makes at most one change, chosen by the fixed
\* priority rotate > drag > pan.  With a rotation active only the rotated
\* laser's angle changes (to normalizeAngle(angle + 0.5 * deltaX));
\* otherwise with a drag active only the dragged laser's position changes
\* (to the pointer's world position); otherwise with a pan active only the
\* pan offset changes (to pointer - panStart); with no gesture active a
\* move changes nothing.  The gesture flags are never changed by a move; the
\* pointer x kept for the rotation (lastMouseX) moves with the rotation only.
MoveByPriority ==
    [][ev'.type = "move" =>
          /\ UNCHANGED << zoom, gravityEnabled, editingLaserId, tempInputValues, nextId,
                          isDragging, draggedLaserId, rotatingLaserId, isPanning,
                          panStart, wasPanning >>
          /\ Len(lasers') = Len(lasers)
          /\ IF rotatingLaserId # NULL
             THEN /\ panOffset' = panOffset
                  /\ \A i \in 1..Len(lasers) :
                        IF lasers[i].id = rotatingLaserId
                        THEN /\ SameButAngle(lasers[i], lasers'[i])
                             /\ lasers'[i].angle =
                                   normalizeAngle(lasers[i].angle
                                                  + (ev'.x - lastMouseX) * RotateGain)
                        ELSE lasers'[i] = lasers[i]
             ELSE IF isDragging
             THEN /\ UNCHANGED << panOffset, lastMouseX >>
                  /\ \A i \in 1..Len(lasers) :
                        IF lasers[i].id = draggedLaserId
                        THEN /\ SameButPosition(lasers[i], lasers'[i])
                             /\ lasers'[i].x = relativeX(ev'.x)
                             /\ lasers'[i].y = relativeY(ev'.y)
                        ELSE lasers'[i] = lasers[i]
             ELSE IF isPanning
             THEN /\ UNCHANGED << lasers, lastMouseX >>
                  /\ panOffset' = [x |-> ev'.x - panStart.x, y |-> ev'.y - panStart.y]
             ELSE UNCHANGED HandlerState]_vars

\* a laser created at PointerOutside is dragged and rotated and the
\* playground is panned, all at once; the pointer moves 180 px to the left
\* and down: the laser has turned by -90 degrees and stands where it stood,
\* and the pan offset is still zero
MovedWithAllGestures ==
    /\ eventCount = 5
    /\ ev.type = "move"
    /\ isDragging /\ draggedLaserId = 0
    /\ rotatingLaserId = 0
    /\ isPanning
    /\ Len(lasers) = 1
    /\ lasers[1].id = 0
    /\ lasers[1].angle = FullTurn - ShiftAngle
    /\ lasers[1].x = relativeX(PointerOutside.x)
    /\ lasers[1].x # relativeX(ev.x)
    /\ panOffset = [x |-> 0, y |-> 0]
    /\ panStart # [x |-> ev.x, y |-> ev.y]

\* the last event was the playground's button-down that started a pan, with
\* the middle button / with Alt + primary button
PanStartedByMiddle == ev.type = "down" /\ ev.button = 1 /\ isPanning
PanStartedByAltPrimary == ev.type = "down" /\ ev.button = 0 /\ ev.altKey /\ isPanning

\* C37: each gesture is ended only by the release of the button that
\* started it: the release of another button leaves a pan started with the
\* middle button, or with Alt + primary button, in progress and does not set
\* wasPanning; a drag ends only with the primary button's release and a
\* rotation only with the secondary button's.
GestureEndsByOwnButton ==
    [][/\ (PanStartedByMiddle /\ ev'.type = "up" /\ ev'.button # 1) =>
             isPanning' /\ wasPanning' = wasPanning
       /\ (PanStartedByAltPrimary /\ ev'.type = "up" /\ ev'.button # 0) =>
             isPanning' /\ wasPanning' = wasPanning
       /\ (isDragging /\ ~isDragging') => ev'.type = "up" /\ ev'.button = 0
       /\ (rotatingLaserId # NULL /\ rotatingLaserId' = NULL) =>
             ev'.type = "up" /\ ev'.button = 2]_vars

(***************************************************************************)
(* Handlers that run for a laser that is gone.  The scene holds the lasers *)
(* 0 and 2 (laser 1 was created and deleted).  A laser is pressed (drag,   *)
(* rotation, dialog) and then deleted or cleared while the gesture or the  *)
(* dialog is still on it (the button was released outside the playground,  *)
(* the dialog is no modal); moves and edits follow.  handleLaserDoubleClick *)
(* is also called for every id handed out so far, in the scene or not.     *)
(***************************************************************************)
IssuedIds == 0..(nextId - 1)
StaleDownEvents ==
    {[button |-> 0, shiftKey |-> FALSE], [button |-> 2, shiftKey |-> FALSE],
     [button |-> 2, shiftKey |-> TRUE]}
StaleEdits == {[field |-> "x", value |-> TextTwo], [field |-> "angle", value |-> TextHalfTurn]}

InitStale ==
    /\ zoom = ZoomUnit
    /\ gravityEnabled = FALSE
    /\ editingLaserId = NULL
    /\ tempInputValues = [x |-> EmptyText, y |-> EmptyText, angle |-> EmptyText]
    /\ lasers = << Laser(0, Rat(rs + 30, 1), RatZero, ShiftAngle),
                   Laser(2, Rat(0 - (rs + 50), 1), Rat(50, 1), 0) >>
    /\ nextId = 3
    /\ isDragging = FALSE
    /\ draggedLaserId = NULL
    /\ rotatingLaserId = NULL
    /\ lastMouseX = NULL
    /\ panOffset = [x |-> 0, y |-> 0]
    /\ isPanning = FALSE
    /\ panStart = [x |-> 0, y |-> 0]
    /\ wasPanning = FALSE
    /\ ev = [type |-> "init"]
    /\ eventCount = 0
    /\ path = PathIdle
    /\ size = [width |-> Width, height |-> Height]
    /\ earlier = NoCall

NextStale ==
    \/ \E id \in IssuedIds : Tick /\ handleLaserDoubleClick(id)
    \/ Tick /\ handleCleanAll
    \/ \E id \in LaserIds, e \in StaleDownEvents :
          Tick /\ handleLaserMouseDown(id, e.button, e.shiftKey, FALSE, PointerOutside.x)
    \/ \E p \in Pointers : Tick /\ handleMouseMove(p.x, p.y)
    \/ \E i \in StaleEdits : Tick /\ handleLaserEdit(i.field, i.value)

SpecStale == InitStale /\ [][NextStale]_vars

(***************************************************************************)
(* Claims about handlers run for a laser that is gone (under SpecStale).   *)
(***************************************************************************)
Gone(id) == id # NULL /\ id \notin LaserIds

\* C38: a change addressed to an id that is not in the scene leaves the
\* scene as it is: a move of a rotation or of a drag whose laser was deleted
\* or cleared, a valid edit whose target was deleted, and a delete of an id
\* that is not there add no laser and alter none.
AbsentIdKeepsScene ==
    [][/\ (ev'.type = "move" /\ Gone(rotatingLaserId)) => lasers' = lasers
       /\ (ev'.type = "move" /\ rotatingLaserId = NULL /\ isDragging
             /\ Gone(draggedLaserId)) => lasers' = lasers
       /\ (ev'.type = "edit" /\ ev'.value.valid /\ Gone(editingLaserId)) =>
             lasers' = lasers
       /\ (ev'.type = "dblclick" /\ ev'.id \notin LaserIds) => lasers' = lasers]_vars

\* laser 0 was pressed for a drag, for a rotation and for the dialog and
\* then deleted (four events); the fifth event is a move or a valid edit,
\* and laser 2 is as it was
GoneLaserAddressed ==
    /\ eventCount = 5
    /\ isDragging /\ draggedLaserId = 0
    /\ rotatingLaserId = 0
    /\ editingLaserId = 0
    /\ ev.type \in {"move", "edit"}
    /\ ev.type = "edit" => ev.value.valid
    /\ lasers = << Laser(2, Rat(0 - (rs + 50), 1), Rat(50, 1), 0) >>

====
